---------------------------- MODULE Spec2Model ----------------------------
(***************************************************************************)
(* Meal-nutrient optimization engine of the mealgen service:               *)
(* batchFetchFoods (bounded concurrent lookup), the serving selector,      *)
(* the portion scaler, the macro rebalancer and the macro aggregator.      *)
(*                                                                         *)
(* Numbers.  A decimal text of the service ("165", "3.600", "", "N/A") is   *)
(* a record [kind, val, form]: kind "num" with val the value in            *)
(* thousandths, kind "empty" for the empty string, kind "bad" for a text   *)
(* strconv.ParseFloat rejects.  form tells the literal text of the lookup  *)
(* ("api") from the output of fmt.Sprintf("%.3f") ("f3").  A float64 is a   *)
(* fraction [n, d] of thousandths, so that "%.3f" is a real rounding.      *)
(***************************************************************************)
EXTENDS Integers, Sequences, FiniteSets, TLC

-----------------------------------------------------------------------------
(* Strings: strings.ToLower, strings.Contains, strings.EqualFold (ASCII).  *)

UpperChars == "ABCDEFGHIJKLMNOPQRSTUVWXYZ"
LowerChars == "abcdefghijklmnopqrstuvwxyz"

ToLowerChar(c) ==
  IF \E i \in 1..26 : SubSeq(UpperChars, i, i) = c
    THEN LET i == CHOOSE j \in 1..26 : SubSeq(UpperChars, j, j) = c
         IN  SubSeq(LowerChars, i, i)
    ELSE c

RECURSIVE ToLower(_)
ToLower(s) ==
  IF Len(s) = 0 THEN ""
  ELSE ToLowerChar(SubSeq(s, 1, 1)) \o ToLower(SubSeq(s, 2, Len(s)))

Contains(s, sub) ==
  \E i \in 1..(Len(s) - Len(sub) + 1) : SubSeq(s, i, i + Len(sub) - 1) = sub

EqualFold(a, b) == ToLower(a) = ToLower(b)

-----------------------------------------------------------------------------
(* Decimal texts and float64 values.                                       *)

NumText(v) == [kind |-> "num", val |-> v, form |-> "api"]
EmptyText  == [kind |-> "empty", val |-> 0, form |-> "api"]
BadText    == [kind |-> "bad", val |-> 0, form |-> "api"]

\* fmt.Sprintf("%.3f", x) of a non-negative product x = w + n/d (see MulFrac):
\* the nearest thousandth.
Sprintf3(x) ==
  [kind |-> "num", val |-> x.w + (IF 2 * x.n >= x.d THEN 1 ELSE 0), form |-> "f3"]

\* strconv.ParseFloat(s, 64): err is TRUE for "" and for a non-numeric text.
ParseFloat(t) == [err |-> t.kind # "num", v |-> IF t.kind = "num" THEN t.val ELSE 0]

parseFloatDefault(t) == IF ParseFloat(t).err THEN 0 ELSE ParseFloat(t).v

RECURSIVE GCD(_, _)
GCD(a, b) == IF b = 0 THEN a ELSE GCD(b, a % b)

\* The float64 n/d, kept in lowest terms.
Frac(n, d) ==
  LET g == GCD(IF n < 0 THEN -n ELSE n, d)
  IN  IF g = 0 THEN [n |-> 0, d |-> 1] ELSE [n |-> n \div g, d |-> d \div g]

-----------------------------------------------------------------------------
(* The float64 product v * m of a parsed value v >= 0 (thousandths) and a  *)
(* factor m >= 0, as w whole thousandths plus the remainder n/d, computed  *)
(* by halving m.n so that no intermediate value leaves the integer range.  *)

RECURSIVE MulDivMod(_, _, _)
MulDivMod(v, n, d) ==
  IF n = 0 \/ v = 0 THEN <<0, 0>>
  ELSE LET h   == MulDivMod(v, n \div 2, d)
           add == IF n % 2 = 1 THEN v ELSE 0
           r   == 2 * h[2] + (add % d)
       IN  <<2 * h[1] + (add \div d) + (r \div d), r % d>>

MulFrac(v, m) ==
  LET qr == MulDivMod(v, m.n, m.d)
  IN  [w |-> qr[1], n |-> qr[2], d |-> m.d]

-----------------------------------------------------------------------------
(* models.Serving and models.Food.                                         *)

DescriptiveFields ==
  {"ServingID", "ServingDescription", "MeasurementDescription",
   "MetricServingAmount", "MetricServingUnit", "NumberOfUnits"}

NutrientFields ==
  {"Calories", "Protein", "Carbohydrate", "Fat", "Sugar", "Fiber",
   "SaturatedFat", "MonounsaturatedFat", "PolyunsaturatedFat", "Cholesterol",
   "Sodium", "Potassium", "Calcium", "Iron",
   "VitaminA", "VitaminB", "VitaminC", "VitaminD"}

\* The fields holding a decimal text; the others hold a plain string.
NumericFields == NutrientFields \cup {"MetricServingAmount"}

\* A serving: id, measurement description, gram amount, the four macros, and
\* one text for each of the fourteen other nutrients.
Serving(id, meas, amount, cal, prot, carb, fat, other) ==
  [f \in DescriptiveFields \cup NutrientFields |->
     CASE f = "ServingID" -> id
       [] f = "ServingDescription" -> IF id = "" THEN "" ELSE "100 g"
       [] f = "MeasurementDescription" -> meas
       [] f = "MetricServingAmount" -> amount
       [] f = "MetricServingUnit" -> IF id = "" THEN "" ELSE "g"
       [] f = "NumberOfUnits" -> IF id = "" THEN "" ELSE "100"
       [] f = "Calories" -> cal
       [] f = "Protein" -> prot
       [] f = "Carbohydrate" -> carb
       [] f = "Fat" -> fat
       [] OTHER -> other]

Food(name, servings) == [FoodName |-> name, Servings |-> servings]

IsEmptyField(s, f) == IF f \in NumericFields THEN s[f].kind = "empty" ELSE s[f] = ""


-----------------------------------------------------------------------------
(* float64 arithmetic on fractions.                                        *)

FInt(v) == [n |-> v, d |-> 1]
FAdd(a, b) == Frac(a.n * b.d + b.n * a.d, a.d * b.d)
FSub(a, b) == Frac(a.n * b.d - b.n * a.d, a.d * b.d)
FMul(a, b) == Frac(a.n * b.n, a.d * b.d)
\* a / b for b > 0
FDiv(a, b) == Frac(a.n * b.d, a.d * b.n)
FLess(a, b) == a.n * b.d < b.n * a.d

minFloat(a, b) == IF FLess(a, b) THEN a ELSE b

-----------------------------------------------------------------------------
(* Serving Selector: filterGramServings and ensureServingFields.           *)

\* Variant of IsGramDescription: the description is compared as it is written.
IsGramDescriptionCaseSensitive(serving) ==
  LET description == serving.MeasurementDescription
  IN  description = "g" \/ description = "gram" \/ description = "grams"

IsGramDescription(serving) ==
  LET descriptionLower == ToLower(serving.MeasurementDescription)
  IN  descriptionLower = "g" \/ descriptionLower = "gram" \/ descriptionLower = "grams"

filterGramServings(servings) ==
  LET gramServings == SelectSeq(servings, IsGramDescription)
  IN  IF Len(gramServings) = 0 /\ Len(servings) > 0
        THEN <<servings[1]>>
        ELSE gramServings

DefaultOf(f) ==
  CASE f = "ServingID" -> "default"
    [] f = "ServingDescription" -> "1 serving"
    [] f = "MeasurementDescription" -> "g"
    [] f = "MetricServingAmount" -> NumText(1000)
    [] f = "MetricServingUnit" -> "g"
    [] f = "NumberOfUnits" -> "1"
    [] OTHER -> NumText(0)

\* Variant of ensureServingFields: the replacement only, no per-field defaults.
ensureServingFieldsNoDefaults(selectedServing, availableServings) ==
  IF (selectedServing.ServingID = "" \/ selectedServing.Calories.kind = "empty")
     /\ Len(availableServings) > 0
    THEN availableServings[1]
    ELSE selectedServing

ensureServingFields(selectedServing, availableServings) ==
  LET picked ==
        IF (selectedServing.ServingID = "" \/ selectedServing.Calories.kind = "empty")
           /\ Len(availableServings) > 0
          THEN availableServings[1]
          ELSE selectedServing
  IN  [f \in DOMAIN picked |->
         IF IsEmptyField(picked, f) THEN DefaultOf(f) ELSE picked[f]]

-----------------------------------------------------------------------------
(* Macro Aggregator: calculateMealMacros.                                  *)

RECURSIVE SumField(_, _, _)
SumField(foods, f, i) ==
  IF i > Len(foods) THEN 0
  ELSE (IF Len(foods[i].Servings) > 0
          THEN parseFloatDefault(foods[i].Servings[1][f])
          ELSE 0)
       + SumField(foods, f, i + 1)

\* Variant of calculateMealMacros: the carbs total adds up the protein texts.
calculateMealMacrosSwapped(foods) ==
  [Calories |-> SumField(foods, "Calories", 1),
   Carbs    |-> SumField(foods, "Protein", 1),
   Proteins |-> SumField(foods, "Protein", 1),
   Fats     |-> SumField(foods, "Fat", 1)]

calculateMealMacros(foods) ==
  [Calories |-> SumField(foods, "Calories", 1),
   Carbs    |-> SumField(foods, "Carbohydrate", 1),
   Proteins |-> SumField(foods, "Protein", 1),
   Fats     |-> SumField(foods, "Fat", 1)]

-----------------------------------------------------------------------------
(* Portion Scaler.                                                         *)

\* parseAndMultiply followed by adjustNutritionalValue: the "%.3f" text of
\* parsed * multiplier, and of 0 for a text that does not parse.
parseAndMultiply(value, multiplier) ==
  IF ParseFloat(value).err THEN MulFrac(0, multiplier)
  ELSE MulFrac(ParseFloat(value).v, multiplier)

adjustNutritionalValue(serving, field, newValue) ==
  [serving EXCEPT ![field] = Sprintf3(newValue)]

\* Variant of adjustServingForTargetCalories: the gram amount is not tested.
adjustServingForTargetCaloriesNoAmountGuard(serving, targetCalories) ==
  LET currentCalories == ParseFloat(serving.Calories)
  IN  IF currentCalories.err \/ currentCalories.v = 0 THEN serving
      ELSE
        LET multiplier == FDiv(targetCalories, FInt(currentCalories.v))
        IN  [f \in DOMAIN serving |->
               IF f \in NumericFields
                 THEN Sprintf3(MulFrac(parseFloatDefault(serving[f]), multiplier))
                 ELSE serving[f]]

\* Variant of adjustServingForTargetCalories: the multiplier is capped at 1.
adjustServingForTargetCaloriesCapped(serving, targetCalories) ==
  LET currentCalories == ParseFloat(serving.Calories)
      currentAmount   == ParseFloat(serving.MetricServingAmount)
  IN  IF currentCalories.err \/ currentCalories.v = 0 THEN serving
      ELSE IF currentAmount.err \/ currentAmount.v = 0 THEN serving
      ELSE
        LET multiplier == minFloat(FInt(1), FDiv(targetCalories, FInt(currentCalories.v)))
        IN  [f \in DOMAIN serving |->
               IF f \in NumericFields
                 THEN Sprintf3(MulFrac(parseFloatDefault(serving[f]), multiplier))
                 ELSE serving[f]]

adjustServingForTargetCalories(serving, targetCalories) ==
  LET currentCalories == ParseFloat(serving.Calories)
      currentAmount   == ParseFloat(serving.MetricServingAmount)
  IN  IF currentCalories.err \/ currentCalories.v = 0 THEN serving
      ELSE IF currentAmount.err \/ currentAmount.v = 0 THEN serving
      ELSE
        LET multiplier == FDiv(targetCalories, FInt(currentCalories.v))
        IN  [f \in DOMAIN serving |->
               IF f = "MetricServingAmount"
                 THEN Sprintf3(MulFrac(currentAmount.v, multiplier))
               ELSE IF f = "Calories"
                 THEN adjustNutritionalValue(serving, f,
                        MulFrac(currentCalories.v, multiplier))[f]
               ELSE IF f \in NutrientFields
                 THEN adjustNutritionalValue(serving, f,
                        parseAndMultiply(serving[f], multiplier))[f]
               ELSE serving[f]]

RECURSIVE FirstMatch(_, _, _)
FirstMatch(foodName, foodWithPortions, i) ==
  IF i > Len(foodWithPortions) THEN 0
  ELSE IF EqualFold(foodName, foodWithPortions[i].Name) THEN i
  ELSE FirstMatch(foodName, foodWithPortions, i + 1)

\* Variant of findPortionRatio: the names are compared as they are written.
findPortionRatioCaseSensitive(foodName, foodWithPortions) ==
  LET hits == {i \in 1..Len(foodWithPortions) : foodName = foodWithPortions[i].Name}
  IN  IF hits # {}
        THEN foodWithPortions[CHOOSE i \in hits : \A j \in hits : i <= j].PortionRatio
        ELSE 100 \div Len(foodWithPortions)

findPortionRatio(foodName, foodWithPortions) ==
  LET i == FirstMatch(foodName, foodWithPortions, 1)
  IN  IF i > 0 THEN foodWithPortions[i].PortionRatio
      ELSE 100 \div Len(foodWithPortions)

\* targetCalories (thousandths) * float64(portionRatio) / 100.0
TargetCaloriesForFood(targetCalories, portionRatio) ==
  FDiv(FMul(FInt(targetCalories), FInt(portionRatio)), FInt(100))

adjustServingsByPortionRatio(foods, foodWithPortions, targetCalories) ==
  [i \in 1..Len(foods) |->
     IF Len(foods[i].Servings) > 0
       THEN LET portionRatio == findPortionRatio(foods[i].FoodName, foodWithPortions)
                adjusted == adjustServingForTargetCalories(foods[i].Servings[1],
                              TargetCaloriesForFood(targetCalories, portionRatio))
            IN  [foods[i] EXCEPT !.Servings[1] = adjusted]
       ELSE foods[i]]

-----------------------------------------------------------------------------
(* Macro Rebalancer.                                                       *)

\* const tolerance = 0.05, the caps 0.6 and 0.35 and the gain 0.8, in percent
TolerancePct == 5
FatCapPct == 60
FatGainPct == 80
CarbCapPct == 35
\* for pass := 0; pass < 2; pass++
RebalancePasses == 2

Pct(p) == Frac(p, 100)

fatKeywords ==
  <<"avocado", "almond", "walnut", "pecan", "cashew", "pistachio", "hazelnut",
    "macadamia", "peanut", "nut butter", "peanut butter", "almond butter",
    "tahini", "sesame", "sunflower seed", "pumpkin seed", "chia", "flax", "hemp",
    "olive oil", "olives", "cheese">>

proteinFatKeywords == <<"salmon", "beef", "egg", "whole milk", "cheese">>

starch ==
  <<"rice", "oat", "oatmeal", "potato", "sweet potato", "pasta", "quinoa", "bread",
    "tortilla", "corn", "couscous", "barley">>

ContainsAny(name, keywords) ==
  LET n == ToLower(name)
  IN  \E k \in 1..Len(keywords) : Contains(n, keywords[k])

isWholeFoodFat(name) == ContainsAny(name, fatKeywords)

isStarchyCarb(name) == ContainsAny(name, starch)

\* The index (from 1) of the food to grow, 0 when there is none.
findBestFatFoodIndex(foods) ==
  IF \E i \in 1..Len(foods) : isWholeFoodFat(foods[i].FoodName)
    THEN CHOOSE i \in 1..Len(foods) :
           /\ isWholeFoodFat(foods[i].FoodName)
           /\ \A j \in 1..(i - 1) : ~isWholeFoodFat(foods[j].FoodName)
  ELSE IF \E i \in 1..Len(foods) : ContainsAny(foods[i].FoodName, proteinFatKeywords)
    THEN CHOOSE i \in 1..Len(foods) :
           /\ ContainsAny(foods[i].FoodName, proteinFatKeywords)
           /\ \A j \in 1..(i - 1) : ~ContainsAny(foods[j].FoodName, proteinFatKeywords)
  ELSE 0

\* Variant of findStarchyCarbIndexes: every food counts as starchy.
findStarchyCarbIndexesAll(foods) ==
  1..Len(foods)

findStarchyCarbIndexes(foods) ==
  {i \in 1..Len(foods) : isStarchyCarb(foods[i].FoodName)}

\* Variant of scaleServing: the values are written with one decimal ("%.1f").
scaleServingOneDecimal(serving, factor) ==
  IF factor.n <= 0 THEN serving
  ELSE [f \in DOMAIN serving |->
          IF f \in NumericFields
            THEN LET x == MulFrac(parseFloatDefault(serving[f]), factor)
                 IN  [kind |-> "num",
                      val |-> 100 * ((x.w \div 100) + (IF x.w % 100 >= 50 THEN 1 ELSE 0)),
                      form |-> "f3"]
            ELSE serving[f]]

scaleServing(serving, factor) ==
  IF factor.n <= 0 THEN serving
  ELSE [f \in DOMAIN serving |->
          IF f \in NumericFields
            THEN Sprintf3(MulFrac(parseFloatDefault(serving[f]), factor))
            ELSE serving[f]]

\* Variant of FatStep: the whole gap to the fat target is closed.
FatStepToTarget(foods, totals, target) ==
  LET fatLowerBound == FMul(FInt(target.Fats), Pct(100 - TolerancePct))
  IN  IF FLess(FInt(totals.Fats), fatLowerBound)
        THEN LET neededFat == FSub(FInt(target.Fats), FInt(totals.Fats))
                 idx == findBestFatFoodIndex(foods)
             IN  IF idx >= 1 /\ Len(foods[idx].Servings) > 0
                   THEN LET serving == foods[idx].Servings[1]
                            fatPerUnit == parseFloatDefault(serving.Fat)
                        IN  IF fatPerUnit > 0
                              THEN LET factor ==
                                         FAdd(FInt(1),
                                              minFloat(Pct(FatCapPct),
                                                       FDiv(neededFat, FInt(fatPerUnit))))
                                   IN  [foods EXCEPT ![idx].Servings[1] =
                                                       scaleServing(serving, factor)]
                              ELSE foods
                   ELSE foods
        ELSE foods

\* Variant of FatStep: the growth is not capped at 0.6.
FatStepUncapped(foods, totals, target) ==
  LET fatLowerBound == FMul(FInt(target.Fats), Pct(100 - TolerancePct))
  IN  IF FLess(FInt(totals.Fats), fatLowerBound)
        THEN LET neededFat == FSub(fatLowerBound, FInt(totals.Fats))
                 idx == findBestFatFoodIndex(foods)
             IN  IF idx >= 1 /\ Len(foods[idx].Servings) > 0
                   THEN LET serving == foods[idx].Servings[1]
                            fatPerUnit == parseFloatDefault(serving.Fat)
                        IN  IF fatPerUnit > 0
                              THEN LET factor ==
                                         FAdd(FInt(1),
                                              FMul(FDiv(neededFat, FInt(fatPerUnit)),
                                                   Pct(FatGainPct)))
                                   IN  [foods EXCEPT ![idx].Servings[1] =
                                                       scaleServing(serving, factor)]
                              ELSE foods
                   ELSE foods
        ELSE foods

\* The fat-deficit correction of one pass; totals are those of the pass start.
FatStep(foods, totals, target) ==
  LET fatLowerBound == FMul(FInt(target.Fats), Pct(100 - TolerancePct))
  IN  IF FLess(FInt(totals.Fats), fatLowerBound)
        THEN LET neededFat == FSub(fatLowerBound, FInt(totals.Fats))
                 idx == findBestFatFoodIndex(foods)
             IN  IF idx >= 1 /\ Len(foods[idx].Servings) > 0
                   THEN LET serving == foods[idx].Servings[1]
                            fatPerUnit == parseFloatDefault(serving.Fat)
                        IN  IF fatPerUnit > 0
                              THEN LET factor ==
                                         FAdd(FInt(1),
                                              minFloat(Pct(FatCapPct),
                                                       FMul(FDiv(neededFat, FInt(fatPerUnit)),
                                                            Pct(FatGainPct))))
                                   IN  [foods EXCEPT ![idx].Servings[1] =
                                                       scaleServing(serving, factor)]
                              ELSE foods
                   ELSE foods
        ELSE foods

RECURSIVE SumStarch(_, _)
SumStarch(foods, idxs) ==
  IF idxs = {} THEN 0
  ELSE LET i == CHOOSE j \in idxs : TRUE
       IN  (IF Len(foods[i].Servings) > 0
              THEN parseFloatDefault(foods[i].Servings[1].Carbohydrate)
              ELSE 0)
           + SumStarch(foods, idxs \ {i})

\* Variant of CarbStep: every food of the meal is scaled down.
CarbStepAllFoods(foods, totals, target) ==
  LET carbUpperBound == FMul(FInt(target.Carbs), Pct(100 + TolerancePct))
  IN  IF FLess(carbUpperBound, FInt(totals.Carbs))
        THEN LET excessCarb == FSub(FInt(totals.Carbs), carbUpperBound)
                 starchyIndexes == findStarchyCarbIndexes(foods)
                 starchCarbs == SumStarch(foods, starchyIndexes)
             IN  IF starchyIndexes # {} /\ starchCarbs > 0
                   THEN LET reductionFrac ==
                              minFloat(Pct(CarbCapPct), FDiv(excessCarb, FInt(starchCarbs)))
                            factor == FSub(FInt(1), reductionFrac)
                        IN  [i \in 1..Len(foods) |->
                               IF Len(foods[i].Servings) > 0
                                 THEN [foods[i] EXCEPT !.Servings[1] =
                                         scaleServing(foods[i].Servings[1], factor)]
                                 ELSE foods[i]]
                   ELSE foods
        ELSE foods

\* The carb-excess correction of one pass, on the foods the fat step left.
CarbStep(foods, totals, target) ==
  LET carbUpperBound == FMul(FInt(target.Carbs), Pct(100 + TolerancePct))
  IN  IF FLess(carbUpperBound, FInt(totals.Carbs))
        THEN LET excessCarb == FSub(FInt(totals.Carbs), carbUpperBound)
                 starchyIndexes == findStarchyCarbIndexes(foods)
                 starchCarbs == SumStarch(foods, starchyIndexes)
             IN  IF starchyIndexes # {} /\ starchCarbs > 0
                   THEN LET reductionFrac ==
                              minFloat(Pct(CarbCapPct), FDiv(excessCarb, FInt(starchCarbs)))
                            factor == FSub(FInt(1), reductionFrac)
                        IN  [i \in 1..Len(foods) |->
                               IF i \in starchyIndexes /\ Len(foods[i].Servings) > 0
                                 THEN [foods[i] EXCEPT !.Servings[1] =
                                         scaleServing(foods[i].Servings[1], factor)]
                                 ELSE foods[i]]
                   ELSE foods
        ELSE foods

RebalancePass(foods, target) ==
  LET totals == calculateMealMacros(foods)
  IN  CarbStep(FatStep(foods, totals, target), totals, target)

RECURSIVE RebalanceFrom(_, _, _)
RebalanceFrom(foods, target, pass) ==
  IF pass < RebalancePasses
    THEN RebalanceFrom(RebalancePass(foods, target), target, pass + 1)
    ELSE foods

rebalanceMealFoods(foods, target) == RebalanceFrom(foods, target, 0)

-----------------------------------------------------------------------------
(* The inputs: meal plans of the generator and answers of the lookup.      *)

MacroTarget(cal, carbs, proteins, fats) ==
  [Calories |-> cal, Carbs |-> carbs, Proteins |-> proteins, Fats |-> fats]

FoodWithPortion(name, ratio) == [Name |-> name, PortionRatio |-> ratio]

MealLLMItems(mealName, target, foods) ==
  [MealName |-> mealName, MacroTarget |-> target, Foods |-> foods]

\* llmResponse.Data: day key -> the day's meals.
PlanShared ==
  [d \in {"day1", "day2"} |->
     IF d = "day1"
       THEN <<MealLLMItems("Lunch", MacroTarget(300000, 30000, 20000, 12000),
                <<FoodWithPortion("Rice", 50), FoodWithPortion("Chia", 30),
                  FoodWithPortion("Egg", 20)>>)>>
       ELSE <<MealLLMItems("Dinner", MacroTarget(200000, 15000, 15000, 9000),
                <<FoodWithPortion("Rice", 60), FoodWithPortion("Egg", 40)>>)>>]

PlanOneDay ==
  [d \in {"day1"} |->
     <<MealLLMItems("Snack", MacroTarget(0, 0, 0, 0), <<>>),
       MealLLMItems("Dinner", MacroTarget(200000, 10000, 10000, 10000),
         <<FoodWithPortion("Egg", 100), FoodWithPortion("Kale", 0)>>)>>]

Plans == {PlanShared, PlanOneDay}

\* A FoodAPIResult with the error of SearchFood.
SearchError == [err |-> TRUE, Foods |-> <<>>]
SearchOk(foods) == [err |-> FALSE, Foods |-> foods]

GramRice ==
  Serving("r1", "g", NumText(100000), NumText(130000), NumText(2700),
          NumText(28000), NumText(300), NumText(400))
CupRice ==
  Serving("r2", "cup", NumText(158000), NumText(205000), NumText(4300),
          NumText(45000), NumText(400), NumText(600))
\* no gram serving, and every field but the macros missing
BareChia ==
  Serving("", "", EmptyText, NumText(486000), NumText(17000),
          NumText(42000), NumText(31000), EmptyText)
GramEgg ==
  Serving("e1", "Grams", NumText(100000), NumText(155000), NumText(13000),
          NumText(1100), NumText(11000), NumText(500))
\* zero calories and non-numeric nutrient texts
OddEgg ==
  Serving("e2", "g", NumText(50000), NumText(0), NumText(6000),
          BadText, EmptyText, BadText)
GramKale ==
  Serving("k1", "gram", NumText(100000), NumText(49000), NumText(4300),
          NumText(8800), NumText(900), NumText(100))

\* What SearchFood(name) may return.
SearchOutcomes(name) ==
  CASE name = "Rice" ->
         {SearchError,
          SearchOk(<<Food("rice", <<CupRice, GramRice>>), Food("Rice Cake", <<CupRice>>)>>),
          SearchOk(<<Food("Brown Rice", <<CupRice>>)>>)}
    [] name = "Chia" ->
         {SearchOk(<<>>),
          SearchOk(<<Food("Chia Seeds", <<BareChia>>)>>),
          SearchOk(<<Food("Chia", <<>>)>>)}
    [] name = "Egg" ->
         {SearchError,
          SearchOk(<<Food("Egg", <<GramEgg>>)>>),
          SearchOk(<<Food("Egg", <<OddEgg, GramEgg>>)>>)}
    [] name = "Kale" ->
         {SearchOk(<<>>), SearchOk(<<Food("Kale", <<GramKale>>)>>)}
    [] OTHER -> {SearchError}

FoodNames == {"Rice", "Chia", "Egg", "Kale"}

\* A *models.Food: nil, or a pointer to a food record.
NilFood == [nil |-> TRUE, food |-> Food("", <<>>)]
PtrTo(f) == [nil |-> FALSE, food |-> f]

-----------------------------------------------------------------------------
(* State.                                                                  *)

VARIABLES
  plan,          \* llmResponse.Data, the handler's input
  mainPc,        \* where swapFoodItems is: "collect", "fetch", "meals", "done"
  uniqueFoods,   \* the key set of the uniqueFoods map
  allMeals,      \* the meals in processing order, each <<dayKey, mealIndex>>
  mealPos,       \* index in allMeals of the next meal to process
  gpc,           \* name -> program point of the goroutine fetching it
  food,          \* name -> the goroutine's local variable food
  semaphore,     \* number of tokens in the semaphore channel
  mutex,         \* TRUE while the mutex is locked
  wg,            \* the WaitGroup counter
  apiCalls,      \* the apiCalls counter
  foodResults,   \* the result map: name -> *models.Food
  result,        \* result.Data: <<dayKey, mealIndex>> -> the meal's MealAPIItems
  searchResult,  \* history: name -> what SearchFood returned for it
  calls,         \* history: name -> number of SearchFood calls made for it
  trace,         \* history: per processed meal, the foods between the stages
  cnt,           \* many-name batch: program point -> number of goroutines there
  pending,       \* many-name batch: names the spawn loop has not reached yet
  arg,           \* single calls: the arguments of the function under call
  ret,           \* single calls: what the function returned
  upc            \* single calls: which function has returned

vars ==
  <<plan, mainPc, uniqueFoods, allMeals, mealPos, gpc, food, semaphore, mutex, wg,
    apiCalls, foodResults, result, searchResult, calls, trace, cnt, pending,
    arg, ret, upc>>

\* make(chan struct{}, 10)
SemaphoreCap == 10

ProgramPoints ==
  {"idle", "acquire", "search", "lock", "store", "unlock", "release", "wgdone", "exited"}

NoEntries == [x \in {} |-> NilFood]

\* No call of a single function is under way.
NoArg == [servings |-> <<>>]

-----------------------------------------------------------------------------
(* swapFoodItems, step 1: data collection.                                 *)

CollectUniqueFoods(data) ==
  UNION {UNION {{data[d][i].Foods[j].Name : j \in 1..Len(data[d][i].Foods)} :
                  i \in 1..Len(data[d])} :
           d \in DOMAIN data}

RECURSIVE MealsInOrder(_, _, _)
\* The meals of the days order[k..], each day's meals in their own order.
MealsInOrder(data, order, k) ==
  IF k > Len(order) THEN <<>>
  ELSE [i \in 1..Len(data[order[k]]) |-> <<order[k], i>>]
       \o MealsInOrder(data, order, k + 1)

\* range over a Go map visits the days in any order.
DayOrders(data) ==
  {o \in [1..Cardinality(DOMAIN data) -> DOMAIN data] :
     \A i, j \in DOMAIN o : i # j => o[i] # o[j]}

Collect ==
  /\ mainPc = "collect"
  /\ uniqueFoods' = CollectUniqueFoods(plan)
  /\ \E o \in DayOrders(plan) : allMeals' = MealsInOrder(plan, o, 1)
  /\ mainPc' = "fetch"
  /\ UNCHANGED <<arg, ret, upc, plan, mealPos, gpc, food, semaphore, mutex, wg, apiCalls,
                 foodResults, result, searchResult, calls, trace, cnt, pending>>

-----------------------------------------------------------------------------
(* batchFetchFoods.                                                        *)

\* for foodName := range uniqueFoods { apiCalls++; wg.Add(1); go func(name) }
Spawn(name) ==
  /\ mainPc = "fetch"
  /\ name \in uniqueFoods
  /\ gpc[name] = "idle"
  /\ apiCalls' = apiCalls + 1
  /\ wg' = wg + 1
  /\ gpc' = [gpc EXCEPT ![name] = "acquire"]
  /\ UNCHANGED <<arg, ret, upc, plan, mainPc, uniqueFoods, allMeals, mealPos, food, semaphore, mutex,
                 foodResults, result, searchResult, calls, trace, cnt, pending>>

\* semaphore <- struct{}{} ; then the goroutine calls foodService.SearchFood(name)
Acquire(name) ==
  /\ gpc[name] = "acquire"
  /\ semaphore < SemaphoreCap
  /\ semaphore' = semaphore + 1
  /\ calls' = [calls EXCEPT ![name] = @ + 1]
  /\ gpc' = [gpc EXCEPT ![name] = "search"]
  /\ UNCHANGED <<arg, ret, upc, plan, mainPc, uniqueFoods, allMeals, mealPos, food, mutex, wg,
                 apiCalls, foodResults, result, searchResult, trace, cnt, pending>>

\* Variant of FirstFoodOf: takes the last food of the answer, not the first.
FirstFoodOfLast(res) ==
  IF ~res.err /\ Len(res.Foods) > 0 THEN PtrTo(res.Foods[Len(res.Foods)]) ELSE NilFood

\* if err == nil && len(searchResult.Foods) > 0 { food = &searchResult.Foods[0] }
FirstFoodOf(res) ==
  IF ~res.err /\ Len(res.Foods) > 0 THEN PtrTo(res.Foods[1]) ELSE NilFood

\* Variant of SearchFoodReturn: a failed lookup is called again (once).
SearchFoodReturnRetry(name, res) ==
  /\ gpc[name] = "search"
  /\ searchResult' = [n \in DOMAIN searchResult \cup {name} |->
                        IF n = name THEN res ELSE searchResult[n]]
  /\ food' = [food EXCEPT ![name] = FirstFoodOf(res)]
  /\ IF res.err /\ calls[name] < 2
       THEN /\ calls' = [calls EXCEPT ![name] = @ + 1]
            /\ gpc' = gpc
       ELSE /\ calls' = calls
            /\ gpc' = [gpc EXCEPT ![name] = "lock"]
  /\ UNCHANGED <<arg, ret, upc, plan, mainPc, uniqueFoods, allMeals, mealPos, semaphore, mutex, wg,
                 apiCalls, foodResults, result, trace, cnt, pending>>

\* SearchFood returns res (a result, an error, or the client's 30 s timeout error)
SearchFoodReturn(name, res) ==
  /\ gpc[name] = "search"
  /\ searchResult' = [n \in DOMAIN searchResult \cup {name} |->
                        IF n = name THEN res ELSE searchResult[n]]
  /\ food' = [food EXCEPT ![name] = FirstFoodOf(res)]
  /\ gpc' = [gpc EXCEPT ![name] = "lock"]
  /\ UNCHANGED <<arg, ret, upc, plan, mainPc, uniqueFoods, allMeals, mealPos, semaphore, mutex, wg,
                 apiCalls, foodResults, result, calls, trace, cnt, pending>>

\* Variant of Lock: the goroutine goes on whether or not the mutex is held.
LockUnguarded(name) ==
  /\ gpc[name] = "lock"
  /\ mutex' = TRUE
  /\ gpc' = [gpc EXCEPT ![name] = "store"]
  /\ UNCHANGED <<arg, ret, upc, plan, mainPc, uniqueFoods, allMeals, mealPos, food, semaphore, wg,
                 apiCalls, foodResults, result, searchResult, calls, trace, cnt, pending>>

\* mutex.Lock()
Lock(name) ==
  /\ gpc[name] = "lock"
  /\ ~mutex
  /\ mutex' = TRUE
  /\ gpc' = [gpc EXCEPT ![name] = "store"]
  /\ UNCHANGED <<arg, ret, upc, plan, mainPc, uniqueFoods, allMeals, mealPos, food, semaphore, wg,
                 apiCalls, foodResults, result, searchResult, calls, trace, cnt, pending>>

\* foodResults[name] = food
Store(name) ==
  /\ gpc[name] = "store"
  /\ foodResults' = [n \in DOMAIN foodResults \cup {name} |->
                       IF n = name THEN food[name] ELSE foodResults[n]]
  /\ gpc' = [gpc EXCEPT ![name] = "unlock"]
  /\ UNCHANGED <<arg, ret, upc, plan, mainPc, uniqueFoods, allMeals, mealPos, food, semaphore, mutex,
                 wg, apiCalls, result, searchResult, calls, trace, cnt, pending>>

\* mutex.Unlock()
Unlock(name) ==
  /\ gpc[name] = "unlock"
  /\ mutex' = FALSE
  /\ gpc' = [gpc EXCEPT ![name] = "release"]
  /\ UNCHANGED <<arg, ret, upc, plan, mainPc, uniqueFoods, allMeals, mealPos, food, semaphore, wg,
                 apiCalls, foodResults, result, searchResult, calls, trace, cnt, pending>>

\* deferred: <-semaphore
Release(name) ==
  /\ gpc[name] = "release"
  /\ semaphore' = semaphore - 1
  /\ gpc' = [gpc EXCEPT ![name] = "wgdone"]
  /\ UNCHANGED <<arg, ret, upc, plan, mainPc, uniqueFoods, allMeals, mealPos, food, mutex, wg,
                 apiCalls, foodResults, result, searchResult, calls, trace, cnt, pending>>

\* deferred: wg.Done()
Done(name) ==
  /\ gpc[name] = "wgdone"
  /\ wg' = wg - 1
  /\ gpc' = [gpc EXCEPT ![name] = "exited"]
  /\ UNCHANGED <<arg, ret, upc, plan, mainPc, uniqueFoods, allMeals, mealPos, food, semaphore, mutex,
                 apiCalls, foodResults, result, searchResult, calls, trace, cnt, pending>>

\* Variant of WaitReturn: returns after the loop without waiting for the group.
WaitReturnNoJoin ==
  /\ mainPc = "fetch"
  /\ \A n \in uniqueFoods : gpc[n] # "idle"
  /\ mainPc' = "meals"
  /\ UNCHANGED <<arg, ret, upc, plan, uniqueFoods, allMeals, mealPos, gpc, food, semaphore, mutex, wg,
                 apiCalls, foodResults, result, searchResult, calls, trace, cnt, pending>>

\* the loop is over; wg.Wait() returns; return foodResults
WaitReturn ==
  /\ mainPc = "fetch"
  /\ \A n \in uniqueFoods : gpc[n] # "idle"
  /\ wg = 0
  /\ mainPc' = "meals"
  /\ UNCHANGED <<arg, ret, upc, plan, uniqueFoods, allMeals, mealPos, gpc, food, semaphore, mutex, wg,
                 apiCalls, foodResults, result, searchResult, calls, trace, cnt, pending>>

-----------------------------------------------------------------------------
(* swapFoodItems, step 3: one meal.  The result map holds pointers, and a  *)
(* Go slice shares its array: food.Servings = ... and Servings[0] = ...    *)
(* write the candidate the map points to.                                  *)

RECURSIVE BuildFoodsFrom(_, _, _, _, _)
\* The loop over mealItem.Foods from entry i on: the foods list so far, the
\* request entry each food came from, and the candidates as the loop left them.
BuildFoodsFrom(foodWithPortions, i, foods, reqIdx, res) ==
  IF i > Len(foodWithPortions) THEN [foods |-> foods, reqIdx |-> reqIdx, res |-> res]
  ELSE
    LET name == foodWithPortions[i].Name
    IN  IF name \in DOMAIN res /\ ~res[name].nil
          THEN LET filtered == filterGramServings(res[name].food.Servings)
                   servings ==
                     IF Len(filtered) > 0
                       THEN [filtered EXCEPT ![1] = ensureServingFields(filtered[1], filtered)]
                       ELSE filtered
                   candidate == [res[name].food EXCEPT !.Servings = servings]
               IN  BuildFoodsFrom(foodWithPortions, i + 1, Append(foods, candidate),
                                  Append(reqIdx, i),
                                  [res EXCEPT ![name] = PtrTo(candidate)])
          ELSE BuildFoodsFrom(foodWithPortions, i + 1, foods, reqIdx, res)

\* The candidates after the meal: the serving array of a name's last food in
\* the meal is the one the map's candidate holds, so it carries every later
\* write to Servings[0].
WriteThrough(res, foodWithPortions, reqIdx, final) ==
  [n \in DOMAIN res |->
     LET idxs == {i \in 1..Len(final) : foodWithPortions[reqIdx[i]].Name = n}
     IN  IF idxs = {} THEN res[n]
         ELSE LET last == CHOOSE i \in idxs : \A j \in idxs : j <= i
              IN  [res[n] EXCEPT !.food.Servings = final[last].Servings]]

\* One iteration of "for _, mealData := range allMeals" on the candidates res.
ProcessOneMeal(mealItem, res) ==
  LET built  == BuildFoodsFrom(mealItem.Foods, 1, <<>>, <<>>, res)
      scaled == adjustServingsByPortionRatio(built.foods, mealItem.Foods,
                                             mealItem.MacroTarget.Calories)
      final  == rebalanceMealFoods(scaled, mealItem.MacroTarget)
  IN  [selected |-> built.foods, reqIdx |-> built.reqIdx, scaled |-> scaled,
       Foods |-> final, Macros |-> calculateMealMacros(final),
       res |-> WriteThrough(built.res, mealItem.Foods, built.reqIdx, final)]

MealAt(key) == plan[key[1]][key[2]]

\* Variant of IndexesFirstServing: Servings[0] is used without the length test.
IndexesFirstServingUnguarded(foodItem) == TRUE

\* Servings[0] of a food is read or written only under "if len(Servings) > 0".
IndexesFirstServing(foodItem) == Len(foodItem.Servings) > 0

\* An index out of range: Servings[0] is used on an empty serving list.
IndexOutOfRange(foods) ==
  \E i \in 1..Len(foods) : IndexesFirstServing(foods[i]) /\ Len(foods[i].Servings) = 0

\* An integer division by zero: findPortionRatio reaches
\* 100 / len(foodWithPortions) with an empty request list.
DivisionByZero(foods, foodWithPortions) ==
  \E i \in 1..Len(foods) :
    /\ Len(foods[i].Servings) > 0
    /\ FirstMatch(foods[i].FoodName, foodWithPortions, 1) = 0
    /\ Len(foodWithPortions) = 0

\* The iteration for the meal panics.
MealPanics(mealItem, res) ==
  LET foods == BuildFoodsFrom(mealItem.Foods, 1, <<>>, <<>>, res).foods
  IN  IndexOutOfRange(foods) \/ DivisionByZero(foods, mealItem.Foods)

ProcessMeal ==
  /\ mainPc = "meals"
  /\ mealPos <= Len(allMeals)
  /\ IF MealPanics(MealAt(allMeals[mealPos]), foodResults)
       THEN /\ mainPc' = "panicked"
            /\ UNCHANGED <<foodResults, result, trace, mealPos>>
       ELSE LET key == allMeals[mealPos]
                out == ProcessOneMeal(MealAt(key), foodResults)
            IN  /\ foodResults' = out.res
                /\ result' = [k \in DOMAIN result \cup {key} |->
                                IF k = key
                                  THEN [MealName |-> MealAt(key).MealName,
                                        MacroTarget |-> MealAt(key).MacroTarget,
                                        Macros |-> out.Macros, Foods |-> out.Foods]
                                  ELSE result[k]]
                /\ trace' = [k \in DOMAIN trace \cup {key} |->
                               IF k = key
                                 THEN [selected |-> out.selected, reqIdx |-> out.reqIdx,
                                       scaled |-> out.scaled]
                                 ELSE trace[k]]
                /\ mealPos' = mealPos + 1
                /\ mainPc' = mainPc
  /\ UNCHANGED <<arg, ret, upc, plan, uniqueFoods, allMeals, gpc, food, semaphore, mutex,
                 wg, apiCalls, searchResult, calls, cnt, pending>>

\* return result
Return ==
  /\ mainPc = "meals"
  /\ mealPos > Len(allMeals)
  /\ mainPc' = "done"
  /\ UNCHANGED <<arg, ret, upc, plan, uniqueFoods, allMeals, mealPos, gpc, food, semaphore, mutex, wg,
                 apiCalls, foodResults, result, searchResult, calls, trace, cnt, pending>>

-----------------------------------------------------------------------------
(* One run of swapFoodItems.                                               *)

Init ==
  /\ plan \in Plans
  /\ mainPc = "collect"
  /\ uniqueFoods = {}
  /\ allMeals = <<>>
  /\ mealPos = 1
  /\ gpc = [n \in FoodNames |-> "idle"]
  /\ food = [n \in FoodNames |-> NilFood]
  /\ semaphore = 0
  /\ mutex = FALSE
  /\ wg = 0
  /\ apiCalls = 0
  /\ foodResults = NoEntries
  /\ result = NoEntries
  /\ searchResult = NoEntries
  /\ calls = [n \in FoodNames |-> 0]
  /\ trace = NoEntries
  /\ cnt = [p \in ProgramPoints |-> 0]
  /\ pending = 0
  /\ arg = NoArg
  /\ ret = NoArg
  /\ upc = "none"

Next ==
  \/ Collect
  \/ \E name \in FoodNames : Spawn(name)
  \/ \E name \in FoodNames : Acquire(name)
  \/ \E name \in FoodNames : \E res \in SearchOutcomes(name) : SearchFoodReturn(name, res)
  \/ \E name \in FoodNames : Lock(name)
  \/ \E name \in FoodNames : Store(name)
  \/ \E name \in FoodNames : Unlock(name)
  \/ \E name \in FoodNames : Release(name)
  \/ \E name \in FoodNames : Done(name)
  \/ WaitReturn
  \/ ProcessMeal
  \/ Return

Spec == Init /\ [][Next]_vars

-----------------------------------------------------------------------------
(* batchFetchFoods for many names.  The goroutines run the same code and   *)
(* differ only in their name, so the batch is followed by the number of    *)
(* goroutines at each program point: pending names are not spawned yet,    *)
(* cnt[p] goroutines are at p.                                             *)

\* the largest uniqueFoods map of the many-name batch
MaxBatchNames == 11

Move(from, to) ==
  [p \in ProgramPoints |->
     IF p = from THEN cnt[p] - 1 ELSE IF p = to THEN cnt[p] + 1 ELSE cnt[p]]

\* for foodName := range uniqueFoods { apiCalls++; wg.Add(1); go func(name) }
BatchSpawn ==
  /\ mainPc = "fetch"
  /\ pending > 0
  /\ pending' = pending - 1
  /\ apiCalls' = apiCalls + 1
  /\ wg' = wg + 1
  /\ cnt' = [cnt EXCEPT !["acquire"] = @ + 1]
  /\ UNCHANGED <<arg, ret, upc, plan, mainPc, uniqueFoods, allMeals, mealPos, gpc, food, semaphore,
                 mutex, foodResults, result, searchResult, calls, trace>>

\* Variant of BatchAcquire: the send does not block on a full channel.
BatchAcquireUnbounded ==
  /\ cnt["acquire"] > 0
  /\ semaphore' = semaphore + 1
  /\ cnt' = Move("acquire", "search")
  /\ UNCHANGED <<arg, ret, upc, plan, mainPc, uniqueFoods, allMeals, mealPos, gpc, food, mutex, wg,
                 apiCalls, foodResults, result, searchResult, calls, trace, pending>>

\* semaphore <- struct{}{} ; then the goroutine calls foodService.SearchFood(name)
BatchAcquire ==
  /\ cnt["acquire"] > 0
  /\ semaphore < SemaphoreCap
  /\ semaphore' = semaphore + 1
  /\ cnt' = Move("acquire", "search")
  /\ UNCHANGED <<arg, ret, upc, plan, mainPc, uniqueFoods, allMeals, mealPos, gpc, food, mutex, wg,
                 apiCalls, foodResults, result, searchResult, calls, trace, pending>>

\* SearchFood returns (a result, an error, or the client's 30 s timeout error)
BatchSearchReturn ==
  /\ cnt["search"] > 0
  /\ cnt' = Move("search", "lock")
  /\ UNCHANGED <<arg, ret, upc, plan, mainPc, uniqueFoods, allMeals, mealPos, gpc, food, semaphore,
                 mutex, wg, apiCalls, foodResults, result, searchResult, calls, trace,
                 pending>>

\* mutex.Lock()
BatchLock ==
  /\ cnt["lock"] > 0
  /\ ~mutex
  /\ mutex' = TRUE
  /\ cnt' = Move("lock", "store")
  /\ UNCHANGED <<arg, ret, upc, plan, mainPc, uniqueFoods, allMeals, mealPos, gpc, food, semaphore, wg,
                 apiCalls, foodResults, result, searchResult, calls, trace, pending>>

\* foodResults[name] = food
BatchStore ==
  /\ cnt["store"] > 0
  /\ cnt' = Move("store", "unlock")
  /\ UNCHANGED <<arg, ret, upc, plan, mainPc, uniqueFoods, allMeals, mealPos, gpc, food, semaphore,
                 mutex, wg, apiCalls, foodResults, result, searchResult, calls, trace,
                 pending>>

\* mutex.Unlock()
BatchUnlock ==
  /\ cnt["unlock"] > 0
  /\ mutex' = FALSE
  /\ cnt' = Move("unlock", "release")
  /\ UNCHANGED <<arg, ret, upc, plan, mainPc, uniqueFoods, allMeals, mealPos, gpc, food, semaphore, wg,
                 apiCalls, foodResults, result, searchResult, calls, trace, pending>>

\* Variant of BatchRelease: the goroutine exits without giving its slot back.
BatchReleaseLeak ==
  /\ cnt["release"] > 0
  /\ cnt' = Move("release", "wgdone")
  /\ UNCHANGED <<arg, ret, upc, plan, mainPc, uniqueFoods, allMeals, mealPos, gpc, food, semaphore,
                 mutex, wg, apiCalls, foodResults, result, searchResult, calls, trace,
                 pending>>

\* deferred: <-semaphore
BatchRelease ==
  /\ cnt["release"] > 0
  /\ semaphore' = semaphore - 1
  /\ cnt' = Move("release", "wgdone")
  /\ UNCHANGED <<arg, ret, upc, plan, mainPc, uniqueFoods, allMeals, mealPos, gpc, food, mutex, wg,
                 apiCalls, foodResults, result, searchResult, calls, trace, pending>>

\* deferred: wg.Done()
BatchDone ==
  /\ cnt["wgdone"] > 0
  /\ wg' = wg - 1
  /\ cnt' = Move("wgdone", "exited")
  /\ UNCHANGED <<arg, ret, upc, plan, mainPc, uniqueFoods, allMeals, mealPos, gpc, food, semaphore,
                 mutex, apiCalls, foodResults, result, searchResult, calls, trace,
                 pending>>

\* the loop is over; wg.Wait() returns; return foodResults
BatchWaitReturn ==
  /\ mainPc = "fetch"
  /\ pending = 0
  /\ wg = 0
  /\ mainPc' = "returned"
  /\ UNCHANGED <<arg, ret, upc, plan, uniqueFoods, allMeals, mealPos, gpc, food, semaphore, mutex, wg,
                 apiCalls, foodResults, result, searchResult, calls, trace, cnt, pending>>

\* batchFetchFoods is called with a map of 0..MaxBatchNames names.
InitBatch ==
  /\ plan \in {PlanShared}
  /\ mainPc = "fetch"
  /\ uniqueFoods = {}
  /\ allMeals = <<>>
  /\ mealPos = 1
  /\ gpc = [n \in FoodNames |-> "idle"]
  /\ food = [n \in FoodNames |-> NilFood]
  /\ semaphore = 0
  /\ mutex = FALSE
  /\ wg = 0
  /\ apiCalls = 0
  /\ foodResults = NoEntries
  /\ result = NoEntries
  /\ searchResult = NoEntries
  /\ calls = [n \in FoodNames |-> 0]
  /\ trace = NoEntries
  /\ cnt = [p \in ProgramPoints |-> 0]
  /\ pending \in 0..MaxBatchNames
  /\ arg = NoArg
  /\ ret = NoArg
  /\ upc = "none"

NextBatch ==
  \/ BatchSpawn
  \/ BatchAcquire
  \/ BatchSearchReturn
  \/ BatchLock
  \/ BatchStore
  \/ BatchUnlock
  \/ BatchRelease
  \/ BatchDone
  \/ BatchWaitReturn

\* The Go scheduler runs every runnable goroutine, and every lookup returns.
BatchFairness ==
  /\ WF_vars(BatchSpawn)
  /\ WF_vars(BatchAcquire)
  /\ WF_vars(BatchSearchReturn)
  /\ WF_vars(BatchLock)
  /\ WF_vars(BatchStore)
  /\ WF_vars(BatchUnlock)
  /\ WF_vars(BatchRelease)
  /\ WF_vars(BatchDone)
  /\ WF_vars(BatchWaitReturn)

SpecBatch == InitBatch /\ [][NextBatch]_vars /\ BatchFairness

-----------------------------------------------------------------------------
(* Properties of batchFetchFoods.                                          *)

\* After batchFetchFoods has returned and before any meal is processed.
JustReturned == mainPc = "meals" /\ mealPos = 1

\* What the goroutine of name n has to store, from what its own lookup returned.
OwnEntry(n) ==
  IF searchResult[n].err \/ Len(searchResult[n].Foods) = 0
    THEN NilFood
    ELSE PtrTo(searchResult[n].Foods[1])

\* C1: when batchFetchFoods has returned, every goroutine it started has
\* finished and the result map holds one entry for each name of the input set
\* and for no other name; the caller never sees a partially filled map.
C1_JoinedAndComplete ==
  mainPc \in {"meals", "done"} =>
    /\ \A n \in uniqueFoods : gpc[n] = "exited"
    /\ \A n \in FoodNames \ uniqueFoods : gpc[n] = "idle"
    /\ wg = 0
    /\ DOMAIN foodResults = uniqueFoods

C1_Witness ==
  /\ JustReturned
  /\ Cardinality(uniqueFoods) >= 3
  /\ \E n, m \in uniqueFoods : foodResults[n].nil /\ ~foodResults[m].nil

\* C2: at every moment at most 10 calls of SearchFood are in progress, for
\* any number of names, also more than 10.
C2_AtMostTenLookups == cnt["search"] <= 10

C2_Witness == cnt["search"] = 10 /\ cnt["acquire"] >= 1

\* C3: in one run the lookup is called exactly once for each unique food name
\* of the plan, also for a name of several meals, and a failed lookup is not
\* called again.
C3_LookedUpOnce ==
  /\ \A n \in FoodNames : calls[n] <= 1
  /\ mainPc \in {"meals", "done"} =>
       \A n \in FoodNames :
         calls[n] = IF \E d \in DOMAIN plan : \E i \in 1..Len(plan[d]) :
                         \E j \in 1..Len(plan[d][i].Foods) : plan[d][i].Foods[j].Name = n
                      THEN 1 ELSE 0

C3_Witness ==
  /\ mainPc = "done"
  /\ plan = PlanShared
  /\ searchResult["Rice"].err
  /\ calls["Rice"] = 1

\* C4: a lookup that returns an error or no food leaves nil for its own name
\* only; the batch returns, and the entry of every other name is the first
\* food of that name's own lookup result.
C4_AbsenceIsolated ==
  (mainPc = "fetch" \/ JustReturned) =>
    \A n \in DOMAIN foodResults : foodResults[n] = OwnEntry(n)

C4_Witness ==
  /\ JustReturned
  /\ plan = PlanShared
  /\ searchResult["Rice"].err
  /\ searchResult["Chia"] = SearchOk(<<>>)
  /\ foodResults["Rice"].nil
  /\ foodResults["Chia"].nil
  /\ ~foodResults["Egg"].nil

\* C5: if every lookup returns, batchFetchFoods returns, for any number of
\* names, also more than 10, with every semaphore slot released and the
\* mutex free.
C5_BatchReturns == <>(mainPc = "returned" /\ semaphore = 0 /\ ~mutex)

C5_Witness == mainPc = "returned" /\ apiCalls > 10 /\ semaphore = 0

-----------------------------------------------------------------------------
(* Properties of meal processing.                                          *)

\* The candidates as the lookups returned them.
Fetched == [n \in DOMAIN searchResult |-> OwnEntry(n)]

\* C6: the foods and macros of every meal are those the meal gets when it is
\* processed alone on the candidates the lookups returned, whatever the
\* order in which the meals are processed.
C6_MealsIndependent ==
  \A key \in DOMAIN result :
    LET alone == ProcessOneMeal(MealAt(key), Fetched)
    IN  /\ result[key].Foods = alone.Foods
        /\ result[key].Macros = alone.Macros

\* C7: after batchFetchFoods has returned, no step of meal processing changes
\* a candidate held in the result map.
C7_CandidatesReadOnly == [][mainPc = "meals" => foodResults' = foodResults]_vars

\* C8: a meal's food list holds exactly the requested foods whose lookup
\* produced a candidate, in request order, and each is scaled with the
\* portion ratio of its own request entry.
C8_OwnRatio ==
  \A key \in DOMAIN trace :
    LET meal == MealAt(key)
        t == trace[key]
        Resolved(i) == ~OwnEntry(meal.Foods[i].Name).nil
    IN  /\ t.reqIdx = SelectSeq([i \in 1..Len(meal.Foods) |-> i], Resolved)
        /\ Len(t.scaled) = Len(t.reqIdx)
        /\ \A i \in 1..Len(t.scaled) :
             Len(t.selected[i].Servings) > 0 =>
               t.scaled[i].Servings[1] =
                 adjustServingForTargetCalories(
                   t.selected[i].Servings[1],
                   TargetCaloriesForFood(meal.MacroTarget.Calories,
                                         meal.Foods[t.reqIdx[i]].PortionRatio))

AllFields == DescriptiveFields \cup NutrientFields

C10_ParseableAtRebalancer ==
  \A key \in DOMAIN trace :
    \A i \in 1..Len(trace[key].scaled) :
      LET servings == trace[key].scaled[i].Servings
      IN  /\ Len(servings) > 0
          /\ \A f \in NutrientFields : servings[1][f].kind = "num"


-----------------------------------------------------------------------------
(* Properties of the Serving Selector and the Portion Scaler in a run.     *)

\* C11: every food of a meal result carries exactly one serving, the selected
\* and scaled one, also when the candidate has several gram servings.
C11_OneServingPerFood ==
  \A key \in DOMAIN result :
    \A i \in 1..Len(result[key].Foods) : Len(result[key].Foods[i].Servings) = 1

\* The serving is one the Portion Scaler scales: calories and gram amount
\* parse and are not zero.
Scalable(serving) ==
  /\ ~ParseFloat(serving.Calories).err /\ ParseFloat(serving.Calories).v # 0
  /\ ~ParseFloat(serving.MetricServingAmount).err
  /\ ParseFloat(serving.MetricServingAmount).v # 0

\* C12: after the Portion Scaler a scalable serving has the calories
\* target * ratio / 100 to 3 decimals, and its gram amount and every other
\* numeric nutrient are the original times target_for_food / calories, to
\* 3 decimals, whatever the size of that multiplier.
C12_ScaledByOneMultiplier ==
  \A key \in DOMAIN trace :
    \A i \in 1..Len(trace[key].scaled) :
      LET meal == MealAt(key)
          before == trace[key].selected[i].Servings
          after == trace[key].scaled[i].Servings
          ratio == findPortionRatio(trace[key].selected[i].FoodName, meal.Foods)
          num == meal.MacroTarget.Calories * ratio
      IN  (Len(before) > 0 /\ Scalable(before[1])) =>
            /\ after[1].Calories.val = (num + 50) \div 100
            /\ \A f \in NumericFields \ {"Calories"} :
                 before[1][f].kind = "num" =>
                   after[1][f] =
                     Sprintf3(MulFrac(before[1][f].val,
                                      Frac(num, 100 * before[1].Calories.val)))
            /\ \A f \in DescriptiveFields \ {"MetricServingAmount"} :
                 after[1][f] = before[1][f]

C12_Witness ==
  \E key \in DOMAIN trace : \E i \in 1..Len(trace[key].scaled) :
    /\ plan = PlanOneDay
    /\ trace[key].selected[i].Servings = <<GramEgg>>
    /\ trace[key].scaled[i].Servings[1].Calories.val = 200000
    /\ trace[key].scaled[i].Servings[1].MetricServingAmount.val = 129032

RECURSIVE SumOfTargets(_, _, _)
\* The sum of the calorie targets the Portion Scaler uses for the foods i.. of
\* a meal's food list.
SumOfTargets(meal, foods, i) ==
  IF i > Len(foods) THEN FInt(0)
  ELSE FAdd(IF Len(foods[i].Servings) > 0
              THEN TargetCaloriesForFood(meal.MacroTarget.Calories,
                                         findPortionRatio(foods[i].FoodName, meal.Foods))
              ELSE FInt(0),
            SumOfTargets(meal, foods, i + 1))

RECURSIVE SumOfRatios(_, _)
SumOfRatios(foodWithPortions, i) ==
  IF i > Len(foodWithPortions) THEN 0
  ELSE foodWithPortions[i].PortionRatio + SumOfRatios(foodWithPortions, i + 1)

\* C13: when the ratios of a meal's request sum to 100, the calorie targets
\* the Portion Scaler uses for the meal's foods sum to the meal's target.
C13_TargetsSumToMealTarget ==
  \A key \in DOMAIN trace :
    SumOfRatios(MealAt(key).Foods, 1) = 100 =>
      SumOfTargets(MealAt(key), trace[key].selected, 1)
        = FInt(MealAt(key).MacroTarget.Calories)


-----------------------------------------------------------------------------
(* Single calls of the Serving Selector, the Portion Scaler's serving      *)
(* adjustment, scaleServing and calculateMealMacros, on the serving lists  *)
(* a candidate can carry.                                                  *)

\* a gram serving without identifier, and one without calories
NoIdGram ==
  Serving("", "GRAM", NumText(100000), NumText(52000), NumText(300),
          NumText(14000), NumText(200), NumText(100))
NoCalGram ==
  Serving("c1", "g", NumText(100000), EmptyText, NumText(300),
          NumText(14000), NumText(200), NumText(100))
\* gram servings whose amount is zero, and is not a number
ZeroAmountGram ==
  Serving("z1", "g", NumText(0), NumText(100000), NumText(2000),
          NumText(3000), NumText(4000), NumText(100))
BadAmountGram ==
  Serving("b1", "g", BadText, NumText(100000), NumText(2000),
          NumText(3000), BadText, NumText(100))
SmallGram ==
  Serving("s1", "g", NumText(1234), NumText(4321), NumText(7),
          NumText(15), NumText(999), NumText(1))

\* The serving lists of a candidate.
CallServingLists ==
  {<<>>, <<GramRice>>, <<CupRice>>, <<CupRice, GramRice>>, <<CupRice, GramEgg, GramRice>>,
   <<BareChia>>, <<OddEgg, GramEgg>>, <<CupRice, NoIdGram>>, <<GramEgg, NoCalGram>>,
   <<NoCalGram, CupRice>>, <<ZeroAmountGram, GramKale>>, <<BadAmountGram>>,
   <<SmallGram, GramKale, BadAmountGram>>}

\* The factors of scaleServing.
CallFactors ==
  {Frac(1, 1000), Frac(1, 3), Frac(1, 2), Frac(13, 20), Frac(1, 1), Frac(8, 5), Frac(3, 1)}

\* The calorie targets of one food (thousandths of a kcal).
CallTargets == {0, 90000, 300000}

\* The Serving Selector as swapFoodItems runs it on one candidate.
SelectedServings(servings) ==
  BuildFoodsFrom(<<FoodWithPortion("Food", 100)>>, 1, <<>>, <<>>,
                 [n \in {"Food"} |-> PtrTo(Food("Food", servings))]).foods[1].Servings

\* One food for each serving of the list, and a last food without servings.
FoodsOf(servings) ==
  [i \in 1..(Len(servings) + 1) |->
     IF i <= Len(servings) THEN Food("Food", <<servings[i]>>) ELSE Food("Food", <<>>)]

UnchangedRun ==
  UNCHANGED <<plan, mainPc, uniqueFoods, allMeals, mealPos, gpc, food, semaphore, mutex,
              wg, apiCalls, foodResults, result, searchResult, calls, trace, cnt, pending>>

\* food.Servings = filterGramServings(food.Servings); food.Servings[0] = ensureServingFields(...)
CallSelector ==
  /\ upc = "none"
  /\ ret' = [servings |-> SelectedServings(arg.servings)]
  /\ upc' = "selected"
  /\ UNCHANGED arg
  /\ UnchangedRun

\* adjustServingForTargetCalories(serving, targetCaloriesForFood)
CallAdjustServing ==
  /\ upc = "none"
  /\ Len(arg.servings) > 0
  /\ ret' = [servings |->
               <<adjustServingForTargetCalories(arg.servings[1], FInt(arg.targetCalories))>>]
  /\ upc' = "adjusted"
  /\ UNCHANGED arg
  /\ UnchangedRun

\* scaleServing(serving, factor)
CallScaleServing ==
  /\ upc = "none"
  /\ Len(arg.servings) > 0
  /\ ret' = [servings |-> <<scaleServing(arg.servings[1], arg.factor)>>]
  /\ upc' = "scaled"
  /\ UNCHANGED arg
  /\ UnchangedRun

\* scaleServing(scaled, 1 / factor)
CallScaleBack ==
  /\ upc = "scaled"
  /\ ret' = [servings |->
               <<scaleServing(ret.servings[1], FDiv(FInt(1), arg.factor))>>]
  /\ upc' = "scaledBack"
  /\ UNCHANGED arg
  /\ UnchangedRun

\* calculateMealMacros(foods)
CallCalculateMealMacros ==
  /\ upc = "none"
  /\ ret' = [servings |-> <<>>, macros |-> calculateMealMacros(FoodsOf(arg.servings))]
  /\ upc' = "summed"
  /\ UNCHANGED arg
  /\ UnchangedRun

\* The names and request lists findPortionRatio is called with.
RatioNames == {"egg", "Egg", "RICE", "Chia Seeds"}
RatioRequests ==
  {<<FoodWithPortion("Rice", 50), FoodWithPortion("Egg", 30), FoodWithPortion("EGG", 20)>>,
   <<FoodWithPortion("Rice", 40), FoodWithPortion("Chia", 30), FoodWithPortion("Egg", 30)>>,
   <<FoodWithPortion("Kale", 100)>>}

\* findPortionRatio(foodName, foodWithPortions)
CallFindPortionRatio ==
  /\ upc = "none"
  /\ \E foodName \in RatioNames, foodWithPortions \in RatioRequests :
       ret' = [servings |-> <<>>, foodName |-> foodName,
               foodWithPortions |-> foodWithPortions,
               ratio |-> findPortionRatio(foodName, foodWithPortions)]
  /\ upc' = "ratio"
  /\ UNCHANGED arg
  /\ UnchangedRun

InitCalls ==
  /\ plan \in {PlanShared}
  /\ mainPc = "calls"
  /\ uniqueFoods = {}
  /\ allMeals = <<>>
  /\ mealPos = 1
  /\ gpc = [n \in FoodNames |-> "idle"]
  /\ food = [n \in FoodNames |-> NilFood]
  /\ semaphore = 0
  /\ mutex = FALSE
  /\ wg = 0
  /\ apiCalls = 0
  /\ foodResults = NoEntries
  /\ result = NoEntries
  /\ searchResult = NoEntries
  /\ calls = [n \in FoodNames |-> 0]
  /\ trace = NoEntries
  /\ cnt = [p \in ProgramPoints |-> 0]
  /\ pending = 0
  /\ arg \in [servings : CallServingLists, factor : CallFactors,
               targetCalories : CallTargets]
  /\ ret = NoArg
  /\ upc = "none"

NextCalls ==
  \/ CallSelector
  \/ CallAdjustServing
  \/ CallScaleServing
  \/ CallScaleBack
  \/ CallCalculateMealMacros
  \/ CallFindPortionRatio

SpecCalls == InitCalls /\ [][NextCalls]_vars


-----------------------------------------------------------------------------
(* Properties of the single calls.                                         *)

\* C14: a serving whose calories or gram amount is zero or does not parse
\* comes back from the Portion Scaler's adjustment as it went in, every
\* field identical.
C14_UnscalableUnchanged ==
  (upc = "adjusted" /\ ~Scalable(arg.servings[1])) =>
    ret.servings[1] = arg.servings[1]

C14_Witness ==
  /\ upc = "adjusted"
  /\ arg.servings[1] = BadAmountGram
  /\ arg.targetCalories = 300000
  /\ ret.servings[1] = BadAmountGram

\* After scaleServing with m and then with 1/m every numeric field that was
\* a number is within tol thousandths of the original.
RoundTripWithin(tol) ==
  \A f \in NumericFields :
    arg.servings[1][f].kind = "num" =>
      LET diff == ret.servings[1][f].val - arg.servings[1][f].val
      IN  diff <= tol /\ -diff <= tol

Contribution(foodItem, f) ==
  IF Len(foodItem.Servings) = 0 THEN 0
  ELSE IF foodItem.Servings[1][f].kind = "num" THEN foodItem.Servings[1][f].val
  ELSE 0

RECURSIVE SumOver(_, _, _)
SumOver(foods, f, idxs) ==
  IF idxs = {} THEN 0
  ELSE LET i == CHOOSE j \in idxs : TRUE
       IN  Contribution(foods[i], f) + SumOver(foods, f, idxs \ {i})

CanonicalIndex(servings) ==
  LET grams == {i \in 1..Len(servings) :
                  ToLower(servings[i].MeasurementDescription) \in {"g", "gram", "grams"}}
  IN  IF grams = {} THEN 1 ELSE CHOOSE i \in grams : \A j \in grams : i <= j

\* out is the serving from, with defaults where from has nothing.
SameServing(out, from) ==
  \A f \in AllFields : ~IsEmptyField(from, f) => out[f] = from[f]

\* C19: the canonical serving is the first serving whose measurement
\* description is g, gram or grams in any case; without one it is the first
\* serving of the unfiltered list.
C19_FirstGramElseFirst ==
  (upc = "selected" /\ Len(arg.servings) > 0) =>
    /\ Len(ret.servings) > 0
    /\ SameServing(ret.servings[1], arg.servings[CanonicalIndex(arg.servings)])

C19_Witness ==
  /\ upc = "selected"
  /\ arg.servings = <<CupRice, GramEgg, GramRice>>
  /\ ret.servings[1] = GramEgg

\* C20: a canonical serving with an empty identifier or empty calories is
\* replaced by the first serving of the candidate, of any unit, before the
\* defaults are applied.
C20_ReplacedByFirstAvailable ==
  (upc = "selected" /\ Len(arg.servings) > 0) =>
    LET canonical == arg.servings[CanonicalIndex(arg.servings)]
    IN  (canonical.ServingID = "" \/ canonical.Calories.kind = "empty") =>
          SameServing(ret.servings[1], arg.servings[1])


-----------------------------------------------------------------------------
(* Properties of the Macro Rebalancer.                                     *)

Abs(x) == IF x < 0 THEN -x ELSE x

\* The pass takes the foods no further from the fat target and no further
\* from the carb target than they were.
PassKeepsDeviation(foods, target) ==
  LET before == calculateMealMacros(foods)
      after == calculateMealMacros(RebalancePass(foods, target))
  IN  /\ Abs(after.Fats - target.Fats) <= Abs(before.Fats - target.Fats)
      /\ Abs(after.Carbs - target.Carbs) <= Abs(before.Carbs - target.Carbs)

\* C16: in each of the two passes of rebalanceMealFoods the distance of the
\* meal's fat from the fat target and of its carbs from the carb target is
\* no greater after the pass than before it.
C16_DeviationNeverGrows ==
  \A key \in DOMAIN trace :
    LET target == MealAt(key).MacroTarget
        first == trace[key].scaled
    IN  /\ PassKeepsDeviation(first, target)
        /\ PassKeepsDeviation(RebalancePass(first, target), target)


-----------------------------------------------------------------------------
(* No hard error.                                                          *)

\* The meals of the plan, each <<dayKey, mealIndex>>.
MealKeys == UNION {{<<d, i>> : i \in 1..Len(plan[d])} : d \in DOMAIN plan}

-----------------------------------------------------------------------------
(* rebalanceMealFoods step by step: the loop test, the fat-deficit         *)
(* correction and the carb-excess correction of each pass, on food lists   *)
(* as the Portion Scaler hands them over.                                  *)

\* a serving of a food that is both a whole-food fat and a starchy carb
GramPeanutBread ==
  Serving("p1", "g", NumText(60000), NumText(210000), NumText(8000),
          NumText(24000), NumText(9000), NumText(200))

\* The food lists handed to the rebalancer.
RebalanceMeals ==
  {<<>>,
   <<Food("Kale", <<GramKale>>)>>,
   <<Food("Brown Rice", <<GramRice>>), Food("Chia Seeds", <<SmallGram>>),
     Food("Egg", <<GramEgg>>)>>,
   <<Food("Egg", <<GramEgg>>), Food("White Rice", <<CupRice, GramRice>>),
     Food("Kale", <<GramKale>>)>>,
   <<Food("Chia", <<>>), Food("Egg", <<GramEgg>>), Food("Rice", <<GramRice>>)>>,
   <<Food("Kale", <<GramKale>>), Food("Peanut Butter Bread", <<GramPeanutBread>>),
     Food("Oatmeal", <<>>), Food("Sweet Corn", <<GramKale>>)>>,
   <<Food("Boiled Egg", <<OddEgg, GramEgg>>), Food("Rice Cake", <<GramRice>>)>>,
   <<Food("Egg", <<GramEgg>>), Food("Cheese Bread", <<GramPeanutBread>>)>>}

\* The meal targets: fats and carbs in thousandths of a gram.
RebalanceTargets ==
  {MacroTarget(300000, c, 20000, f) : c \in {0, 10000, 30000, 30001, 60000},
                                       f \in {0, 5000, 12000, 40000}}

\* rebalanceMealFoods(foods, target) is entered: pass := 0
CallRebalance ==
  /\ upc = "none"
  /\ ret' = [foods |-> arg.foods, pass |-> 0, starts |-> <<>>, fatDone |-> <<>>]
  /\ upc' = "loop"
  /\ UNCHANGED arg
  /\ UnchangedRun

\* pass < 2: totals := calculateMealMacros(foods), then the fat-deficit correction
FatCorrection ==
  /\ upc = "loop"
  /\ ret.pass < RebalancePasses
  /\ LET totals == calculateMealMacros(ret.foods)
     IN  ret' = [ret EXCEPT !.foods = FatStep(ret.foods, totals, arg.target),
                            !.starts = Append(@, [foods |-> ret.foods, totals |-> totals]),
                            !.fatDone = Append(@, FatStep(ret.foods, totals, arg.target))]
  /\ upc' = "carb"
  /\ UNCHANGED arg
  /\ UnchangedRun

\* the carb-excess correction, with the totals of the pass start; pass++
CarbCorrection ==
  /\ upc = "carb"
  /\ ret' = [ret EXCEPT !.foods = CarbStep(ret.foods, ret.starts[Len(ret.starts)].totals,
                                           arg.target),
                        !.pass = @ + 1]
  /\ upc' = "loop"
  /\ UNCHANGED arg
  /\ UnchangedRun

\* Variant of RebalanceReturn: the loop is left after the first pass.
RebalanceReturnEarly ==
  /\ upc = "loop"
  /\ ret.pass >= 1
  /\ upc' = "rebalanced"
  /\ UNCHANGED <<arg, ret>>
  /\ UnchangedRun

\* pass < 2 fails: return foods
RebalanceReturn ==
  /\ upc = "loop"
  /\ ~(ret.pass < RebalancePasses)
  /\ upc' = "rebalanced"
  /\ UNCHANGED <<arg, ret>>
  /\ UnchangedRun

InitRebalance ==
  /\ plan \in {PlanShared}
  /\ mainPc = "calls"
  /\ uniqueFoods = {}
  /\ allMeals = <<>>
  /\ mealPos = 1
  /\ gpc = [n \in FoodNames |-> "idle"]
  /\ food = [n \in FoodNames |-> NilFood]
  /\ semaphore = 0
  /\ mutex = FALSE
  /\ wg = 0
  /\ apiCalls = 0
  /\ foodResults = NoEntries
  /\ result = NoEntries
  /\ searchResult = NoEntries
  /\ calls = [n \in FoodNames |-> 0]
  /\ trace = NoEntries
  /\ cnt = [p \in ProgramPoints |-> 0]
  /\ pending = 0
  /\ arg \in [foods : RebalanceMeals, target : RebalanceTargets]
  /\ ret = NoArg
  /\ upc = "none"

NextRebalance ==
  \/ CallRebalance
  \/ FatCorrection
  \/ CarbCorrection
  \/ RebalanceReturn

\* The control of the call: the position each step of NextRebalance leaves.
RebalanceControl ==
  \/ upc = "none" /\ upc' = "loop"
  \/ upc = "loop" /\ ret.pass < RebalancePasses /\ upc' = "carb"
  \/ upc = "carb" /\ upc' = "loop"
  \/ upc = "loop" /\ ~(ret.pass < RebalancePasses) /\ upc' = "rebalanced"

\* The function runs on: no step of it waits for anything.
SpecRebalance == InitRebalance /\ [][NextRebalance]_vars /\ WF_upc(RebalanceControl)

\* The step-by-step run returns what rebalanceMealFoods computes.
RebalanceSteps == upc = "rebalanced" => ret.foods = rebalanceMealFoods(arg.foods, arg.target)


-----------------------------------------------------------------------------
(* Properties of the passes.                                               *)

\* The keywords as the specification lists them.
WholeFoodFatWords ==
  {"avocado", "almond", "walnut", "pecan", "cashew", "pistachio", "hazelnut",
   "macadamia", "peanut", "nut butter", "peanut butter", "almond butter", "tahini",
   "sesame", "sunflower seed", "pumpkin seed", "chia", "flax", "hemp", "olive oil",
   "olives", "cheese"}
HighFatProteinWords == {"salmon", "beef", "egg", "whole milk", "cheese"}
StarchyWords ==
  {"rice", "oat", "oatmeal", "potato", "sweet potato", "pasta", "quinoa", "bread",
   "tortilla", "corn", "couscous", "barley"}

NameHas(foodItem, words) == \E w \in words : Contains(ToLower(foodItem.FoodName), w)

\* The first food whose name has one of the words, 0 when there is none.
FirstWith(foods, words) ==
  LET hits == {i \in 1..Len(foods) : NameHas(foods[i], words)}
  IN  IF hits = {} THEN 0 ELSE CHOOSE i \in hits : \A j \in hits : i <= j

\* The food the fat correction is to grow, 0 when there is none.
FatTarget(foods) ==
  IF FirstWith(foods, WholeFoodFatWords) # 0 THEN FirstWith(foods, WholeFoodFatWords)
  ELSE FirstWith(foods, HighFatProteinWords)

\* The fat (thousandths) of the first serving of the food, 0 without one.
FatOf(foodItem) ==
  IF Len(foodItem.Servings) > 0 /\ foodItem.Servings[1].Fat.kind = "num"
    THEN foodItem.Servings[1].Fat.val ELSE 0

FatIsLow(totals) == totals.Fats * 100 < arg.target.Fats * 95
CarbsAreHigh(totals) == totals.Carbs * 100 > arg.target.Carbs * 105

\* 1 + min(0.6, (deficit / fat_per_unit) * 0.8), deficit = target_fat * 0.95 - fat
FatFactor(totals, fatPerUnit) ==
  LET deficit == FSub(Frac(arg.target.Fats * 95, 100), FInt(totals.Fats))
      gain == FMul(FDiv(deficit, FInt(fatPerUnit)), Frac(8, 10))
  IN  FAdd(FInt(1), IF FLess(gain, Frac(6, 10)) THEN gain ELSE Frac(6, 10))

\* C22: in a pass that starts with fat below target_fat * 0.95 the fat
\* correction scales one food, the first with a whole-food-fat keyword, else
\* the first with a high-fat-protein keyword, by 1 + min(0.6, (deficit /
\* fat_per_unit) * 0.8), a factor in (1, 1.6], when its fat is > 0; else it
\* changes nothing.
C22_FatCorrection ==
  upc \in {"carb", "loop", "rebalanced"} =>
    \A k \in 1..Len(ret.fatDone) :
      LET before == ret.starts[k].foods
          totals == ret.starts[k].totals
          after == ret.fatDone[k]
          t == FatTarget(before)
      IN  FatIsLow(totals) =>
            IF t # 0 /\ FatOf(before[t]) > 0
              THEN LET factor == FatFactor(totals, FatOf(before[t]))
                   IN  /\ FLess(FInt(1), factor) /\ ~FLess(Frac(16, 10), factor)
                       /\ after = [before EXCEPT ![t].Servings[1] =
                                     scaleServing(before[t].Servings[1], factor)]
              ELSE after = before

C22_Witness ==
  /\ upc = "carb"
  /\ ret.pass = 0
  /\ Len(arg.foods) = 3
  /\ arg.target.Fats = 40000
  /\ arg.foods[1] = Food("Egg", <<GramEgg>>)
  /\ ret.foods[1].Servings[1].Fat.val = 17600
  /\ ret.foods[2] = arg.foods[2]

\* The foods as pass k left them.
AfterPass(k) == IF k < Len(ret.starts) THEN ret.starts[k + 1].foods ELSE ret.foods

RECURSIVE StarchyCarbSum(_, _)
StarchyCarbSum(foods, i) ==
  IF i > Len(foods) THEN 0
  ELSE (IF NameHas(foods[i], StarchyWords) /\ Len(foods[i].Servings) > 0
           /\ foods[i].Servings[1].Carbohydrate.kind = "num"
          THEN foods[i].Servings[1].Carbohydrate.val ELSE 0)
       + StarchyCarbSum(foods, i + 1)

\* 1 - min(0.35, excess / starchy_carb_sum), excess = carbs - target_carbs * 1.05
CarbFactor(totals, starchyCarbSum) ==
  LET excess == FSub(FInt(totals.Carbs), Frac(arg.target.Carbs * 105, 100))
      cut == FDiv(excess, FInt(starchyCarbSum))
  IN  FSub(FInt(1), IF FLess(cut, Frac(35, 100)) THEN cut ELSE Frac(35, 100))

\* C23: in a pass that starts with carbs above target_carbs * 1.05, when the
\* carbs of the starchy foods sum to more than 0, the serving of every
\* starchy food is scaled by 1 - min(0.35, excess / starchy_carb_sum), a
\* factor in [0.65, 1), and the carb correction changes no other food.
C23_CarbCorrection ==
  (upc \in {"loop", "rebalanced"} /\ ret.pass >= 1) =>
    \A k \in 1..ret.pass :
      LET totals == ret.starts[k].totals
          before == ret.fatDone[k]
          after == AfterPass(k)
          sum == StarchyCarbSum(before, 1)
      IN  (CarbsAreHigh(totals) /\ sum > 0) =>
            LET factor == CarbFactor(totals, sum)
            IN  /\ ~FLess(factor, Frac(65, 100)) /\ FLess(factor, FInt(1))
                /\ Len(after) = Len(before)
                /\ \A i \in 1..Len(before) :
                     IF NameHas(before[i], StarchyWords) /\ Len(before[i].Servings) > 0
                       THEN after[i] = [before[i] EXCEPT !.Servings[1] =
                                          scaleServing(before[i].Servings[1], factor)]
                       ELSE after[i] = before[i]

C23_Witness ==
  /\ upc = "loop"
  /\ ret.pass = 1
  /\ arg.target.Carbs = 10000
  /\ Len(arg.foods) = 3
  /\ arg.foods[2] = Food("White Rice", <<CupRice, GramRice>>)
  /\ ret.foods[2].Servings[1].Carbohydrate.val = 29250
  /\ ret.foods[2].Servings[2] = GramRice
  /\ ret.foods[3] = arg.foods[3]

\* C24: rebalanceMealFoods returns, and it returns after exactly two passes,
\* whether or not the meal is inside the tolerance band.
C24_TwoPassesThenReturn ==
  /\ [](upc = "rebalanced" => ret.pass = 2 /\ Len(ret.starts) = 2)
  /\ <>(upc = "rebalanced")

C24_Witness ==
  /\ upc = "rebalanced"
  /\ ret.pass = 2
  /\ ret.foods = arg.foods
  /\ Len(arg.foods) = 3


\* The servings pass k scales: the fat target, and each starchy food.
ScaledInPass(k) ==
  LET before == ret.starts[k].foods
      totals == ret.starts[k].totals
      t == FatTarget(before)
  IN  (IF FatIsLow(totals) /\ t # 0 /\ FatOf(before[t]) > 0 THEN 1 ELSE 0)
      + (IF CarbsAreHigh(totals)
           THEN Cardinality({i \in 1..Len(before) :
                               NameHas(before[i], StarchyWords)
                               /\ Len(before[i].Servings) > 0})
           ELSE 0)

\* Pass k stays on its side of both bounds, up to slack thousandths of a gram.
NoOvershoot(k, fatSlack, carbSlack) ==
  LET start == ret.starts[k].totals
      after == calculateMealMacros(AfterPass(k))
  IN  /\ FatIsLow(start) =>
           after.Fats * 100 <= arg.target.Fats * 95 + fatSlack * 100
      /\ CarbsAreHigh(start) =>
           after.Carbs * 100 >= arg.target.Carbs * 105 - carbSlack * 100

PassesDone == upc \in {"loop", "rebalanced"} /\ ret.pass >= 1

C28_RebalancerFrame ==
  upc = "rebalanced" =>
    /\ Len(ret.foods) = Len(arg.foods)
    /\ \A i \in 1..Len(arg.foods) :
         /\ ret.foods[i].FoodName = arg.foods[i].FoodName
         /\ Len(ret.foods[i].Servings) = Len(arg.foods[i].Servings)
         /\ \A j \in 2..Len(arg.foods[i].Servings) :
              ret.foods[i].Servings[j] = arg.foods[i].Servings[j]
         /\ ret.foods[i] # arg.foods[i] =>
              \/ i = FatTarget(arg.foods)
              \/ NameHas(arg.foods[i], StarchyWords)
    /\ (\A k \in 1..Len(ret.starts) :
           ~FatIsLow(ret.starts[k].totals) /\ ~CarbsAreHigh(ret.starts[k].totals))
        => ret.foods = arg.foods

C28_Witness ==
  /\ upc = "rebalanced"
  /\ Len(arg.foods) = 3
  /\ arg.foods[2] = Food("White Rice", <<CupRice, GramRice>>)
  /\ ret.foods[1] # arg.foods[1]
  /\ ret.foods[2].Servings[1] # CupRice
  /\ ret.foods[2].Servings[2] = GramRice
  /\ ret.foods[3] = arg.foods[3]


\* C21: findPortionRatio returns the ratio of the first request entry whose
\* name equals the food's name ignoring case, and 100 / (number of entries),
\* an integer, when there is none.
C21_FirstMatchElseEqualSplit ==
  upc = "ratio" =>
    LET req == ret.foodWithPortions
        same == {i \in 1..Len(req) : ToLower(req[i].Name) = ToLower(ret.foodName)}
    IN  IF same = {}
          THEN ret.ratio = 100 \div Len(req)
          ELSE \E i \in same : /\ \A j \in same : i <= j
                                /\ ret.ratio = req[i].PortionRatio

\* "egg" takes the 30 of "Egg", not the 20 of "EGG"; three entries split as 33
C21_Witness ==
  /\ upc = "ratio"
  /\ Len(ret.foodWithPortions) = 3
  /\ \/ ret.foodName = "egg" /\ ret.foodWithPortions[3].Name = "EGG" /\ ret.ratio = 30
     \/ ret.foodName = "Chia Seeds" /\ ret.ratio = 33

\* The goroutines between mutex.Lock() and mutex.Unlock().
InMapWrite == {n \in FoodNames : gpc[n] \in {"store", "unlock"}}

\* C25: no two lookup goroutines are inside the write of the result map at
\* the same time, and when the caller has the map every goroutine is past
\* its write.
C25_MapWrittenUnderMutex ==
  /\ Cardinality(InMapWrite) <= 1
  /\ InMapWrite # {} => mutex
  /\ mainPc # "fetch" /\ mainPc # "collect" =>
       \A n \in uniqueFoods : gpc[n] \in {"release", "wgdone", "exited"}
                               /\ n \in DOMAIN foodResults

\* one goroutine writes while another waits for the mutex
C25_Witness ==
  \E n, m \in uniqueFoods : gpc[n] = "store" /\ gpc[m] = "lock" /\ mutex

\* C26: every food of a meal is scaled to the calories target * ratio / 100 of
\* the request entry under whose name it was looked up, whatever name the
\* candidate carries.
C26_RatioOfRequestedName ==
  \A key \in DOMAIN trace :
    LET meal == MealAt(key)
        t == trace[key]
    IN  \A i \in 1..Len(t.scaled) :
          (Len(t.selected[i].Servings) > 0 /\ Scalable(t.selected[i].Servings[1])) =>
            LET own == meal.Foods[t.reqIdx[i]].PortionRatio
                got == t.scaled[i].Servings[1].Calories.val
            IN  Abs(got * 100 - meal.MacroTarget.Calories * own) <= 50


-----------------------------------------------------------------------------
(* GenerateMeals: the plan the generator hands to swapFoodItems.  The      *)
(* macro targets are float64 values, kept as fractions of thousandths.     *)

Digits == "0123456789"

\* strconv.Atoi(s): an optional sign and decimal digits.
RECURSIVE AtoiDigits(_, _)
AtoiDigits(s, acc) ==
  IF Len(s) = 0 THEN [err |-> FALSE, v |-> acc]
  ELSE LET c == SubSeq(s, 1, 1)
       IN  IF \E i \in 1..10 : SubSeq(Digits, i, i) = c
             THEN AtoiDigits(SubSeq(s, 2, Len(s)),
                             acc * 10 + (CHOOSE i \in 1..10 : SubSeq(Digits, i, i) = c) - 1)
             ELSE [err |-> TRUE, v |-> 0]

Atoi(s) ==
  IF Len(s) = 0 THEN [err |-> TRUE, v |-> 0]
  ELSE IF SubSeq(s, 1, 1) \in {"+", "-"}
    THEN IF Len(s) = 1 THEN [err |-> TRUE, v |-> 0]
         ELSE LET r == AtoiDigits(SubSeq(s, 2, Len(s)), 0)
              IN  IF SubSeq(s, 1, 1) = "-" THEN [err |-> r.err, v |-> 0 - r.v] ELSE r
  ELSE AtoiDigits(s, 0)

\* strings.TrimSpace, for blanks
RECURSIVE TrimSpace(_)
TrimSpace(s) ==
  IF Len(s) = 0 THEN s
  ELSE IF SubSeq(s, 1, 1) = " " THEN TrimSpace(SubSeq(s, 2, Len(s)))
  ELSE IF SubSeq(s, Len(s), Len(s)) = " " THEN TrimSpace(SubSeq(s, 1, Len(s) - 1))
  ELSE s

getDefaultFoodsForMeal(mealName) ==
  IF mealName = "Breakfast"
    THEN <<FoodWithPortion("Oatmeal", 40), FoodWithPortion("Greek Yogurt", 25),
           FoodWithPortion("Banana", 20), FoodWithPortion("Almonds", 15)>>
  ELSE IF mealName = "Lunch"
    THEN <<FoodWithPortion("Grilled Chicken Breast", 40), FoodWithPortion("Brown Rice", 30),
           FoodWithPortion("Broccoli", 15), FoodWithPortion("Avocado", 15)>>
  ELSE IF mealName = "Dinner"
    THEN <<FoodWithPortion("Salmon", 40), FoodWithPortion("Sweet Potato", 30),
           FoodWithPortion("Spinach", 15), FoodWithPortion("Olive Oil", 15)>>
  ELSE <<FoodWithPortion("Chicken Breast", 40), FoodWithPortion("Brown Rice", 30),
         FoodWithPortion("Broccoli", 15), FoodWithPortion("Avocado", 15)>>

\* The zero value of models.MacroTarget.
ZeroMacroTarget == MacroTarget(FInt(0), FInt(0), FInt(0), FInt(0))

\* The foods of cleanFoodsArrays: the entries with a new non-empty name, then
\* defaults with a new name while there are fewer than 4.
RECURSIVE Dedupe(_, _, _, _)
Dedupe(foods, i, unique, deduped) ==
  IF i > Len(foods) THEN [unique |-> unique, deduped |-> deduped]
  ELSE LET name == TrimSpace(ToLower(foods[i].Name))
       IN  IF name = "" \/ name \in unique
             THEN Dedupe(foods, i + 1, unique, deduped)
             ELSE Dedupe(foods, i + 1, unique \cup {name}, Append(deduped, foods[i]))

RECURSIVE PadWithDefaults(_, _, _, _)
PadWithDefaults(defaults, i, unique, deduped) ==
  IF i > Len(defaults) \/ Len(deduped) >= 4 THEN deduped
  ELSE LET lname == TrimSpace(ToLower(defaults[i].Name))
       IN  IF lname \notin unique
             THEN PadWithDefaults(defaults, i + 1, unique \cup {lname},
                                  Append(deduped, defaults[i]))
             ELSE PadWithDefaults(defaults, i + 1, unique, deduped)

CleanFoods(meal) ==
  LET foods == IF Len(meal.Foods) = 0 THEN getDefaultFoodsForMeal(meal.MealName)
               ELSE meal.Foods
      d == Dedupe(foods, 1, {}, <<>>)
  IN  IF Len(d.deduped) < 4
        THEN PadWithDefaults(getDefaultFoodsForMeal(meal.MealName), 1, d.unique, d.deduped)
        ELSE d.deduped

cleanFoodsArrays(mealPlan) ==
  [dayKey \in DOMAIN mealPlan |->
     [i \in 1..Len(mealPlan[dayKey]) |->
        [mealPlan[dayKey][i] EXCEPT !.Foods = CleanFoods(mealPlan[dayKey][i])]]]

NumberOfMealsOf(reqBody) ==
  LET parsed == Atoi(reqBody.MealsPerDay)
      fromText == IF reqBody.NumberOfMeals = 0 /\ reqBody.MealsPerDay # "" /\ ~parsed.err
                    THEN parsed.v ELSE reqBody.NumberOfMeals
  IN  IF fromText = 0 THEN 3 ELSE fromText

PerMealTarget(reqBody) ==
  LET numberOfMeals == NumberOfMealsOf(reqBody)
  IN  MacroTarget(FDiv(FInt(reqBody.DailyCaloriesGoal), FInt(numberOfMeals)),
                  FDiv(FInt(reqBody.DailyCarbsGoal), FInt(numberOfMeals)),
                  FDiv(FInt(reqBody.DailyProtiensGoal), FInt(numberOfMeals)),
                  FDiv(FInt(reqBody.DailyFatsGoal), FInt(numberOfMeals)))

setMacroTargets(mealPlan, reqBody) ==
  [dayKey \in DOMAIN mealPlan |->
     [i \in 1..Len(mealPlan[dayKey]) |->
        [mealPlan[dayKey][i] EXCEPT !.MacroTarget = PerMealTarget(reqBody)]]]

DefaultDates == <<"2024-01-01", "2024-01-02", "2024-01-03", "2024-01-04",
                  "2024-01-05", "2024-01-06", "2024-01-07">>
DefaultMealNames == <<"Breakfast", "Lunch", "Dinner">>

\* The default plan: three meals for every date, no macro target assigned.
createStructuredResponse(reqBody) ==
  LET dates == IF Len(reqBody.Dates) = 0 THEN DefaultDates ELSE reqBody.Dates
  IN  [dateKey \in {dates[k] : k \in 1..Len(dates)} |->
         [j \in 1..3 |->
            MealLLMItems(DefaultMealNames[j], ZeroMacroTarget,
                         getDefaultFoodsForMeal(DefaultMealNames[j]))]]

\* The requests: goals in thousandths of a unit.
RequestBodies ==
  [NumberOfMeals : {0, 3, 4},
   MealsPerDay : {"", "2", "many"},
   DailyCaloriesGoal : {1800000, 2400000},
   DailyCarbsGoal : {200000},
   DailyProtiensGoal : {120000},
   DailyFatsGoal : {70000},
   Dates : {<<>>, <<"day1", "day2">>}]

\* A decoded generator plan whose meals carry the generator's own targets.
GeneratorPlan ==
  [d \in {"day1", "day2"} |->
     IF d = "day1"
       THEN <<MealLLMItems("Breakfast", MacroTarget(FInt(500000), FInt(50000), FInt(30000),
                                                     FInt(20000)),
                <<FoodWithPortion("Oatmeal", 50), FoodWithPortion(" oatmeal ", 20),
                  FoodWithPortion("", 10), FoodWithPortion("Egg", 20)>>),
              MealLLMItems("Lunch", ZeroMacroTarget, <<>>)>>
       ELSE <<MealLLMItems("Supper", ZeroMacroTarget,
                <<FoodWithPortion("Rice", 25), FoodWithPortion("Egg", 25),
                  FoodWithPortion("Kale", 25), FoodWithPortion("Chia", 25)>>)>>]

NoPlan == [d \in {} |-> <<>>]

\* What gs.prompt returns and what json.Unmarshal makes of it.
GeneratorReplies ==
  {[err |-> TRUE, parses |-> FALSE, plan |-> NoPlan],
   [err |-> FALSE, parses |-> FALSE, plan |-> NoPlan],
   [err |-> FALSE, parses |-> TRUE, plan |-> NoPlan],
   [err |-> FALSE, parses |-> TRUE, plan |-> GeneratorPlan]}

\* GenerateMeals(reqBody): the prompt is built and sent
CallGenerateMeals ==
  /\ upc = "none"
  /\ upc' = "prompt"
  /\ ret' = [servings |-> <<>>, err |-> FALSE, plan |-> NoPlan]
  /\ UNCHANGED arg
  /\ UnchangedRun

\* gs.prompt returned an error
PromptError ==
  /\ upc = "prompt"
  /\ arg.reply.err
  /\ ret' = [ret EXCEPT !.err = TRUE]
  /\ upc' = "generated"
  /\ UNCHANGED arg
  /\ UnchangedRun

\* parseMealResponse: json.Unmarshal failed
ParseFallback ==
  /\ upc = "prompt"
  /\ ~arg.reply.err
  /\ ~arg.reply.parses
  /\ ret' = [ret EXCEPT !.plan = createStructuredResponse(arg.reqBody)]
  /\ upc' = "generated"
  /\ UNCHANGED arg
  /\ UnchangedRun

\* parseMealResponse: the plan was decoded, cleaned and given its targets
ParseAndSetTargets ==
  /\ upc = "prompt"
  /\ ~arg.reply.err
  /\ arg.reply.parses
  /\ ret' = [ret EXCEPT !.plan =
               setMacroTargets(cleanFoodsArrays(arg.reply.plan), arg.reqBody)]
  /\ upc' = "generated"
  /\ UNCHANGED arg
  /\ UnchangedRun

InitGenerate ==
  /\ plan \in {PlanShared}
  /\ mainPc = "calls"
  /\ uniqueFoods = {}
  /\ allMeals = <<>>
  /\ mealPos = 1
  /\ gpc = [n \in FoodNames |-> "idle"]
  /\ food = [n \in FoodNames |-> NilFood]
  /\ semaphore = 0
  /\ mutex = FALSE
  /\ wg = 0
  /\ apiCalls = 0
  /\ foodResults = NoEntries
  /\ result = NoEntries
  /\ searchResult = NoEntries
  /\ calls = [n \in FoodNames |-> 0]
  /\ trace = NoEntries
  /\ cnt = [p \in ProgramPoints |-> 0]
  /\ pending = 0
  /\ arg \in [reqBody : RequestBodies, reply : GeneratorReplies]
  /\ ret = NoArg
  /\ upc = "none"

NextGenerate ==
  \/ CallGenerateMeals
  \/ PromptError
  \/ ParseFallback
  \/ ParseAndSetTargets

SpecGenerate == InitGenerate /\ [][NextGenerate]_vars

\* The daily goals divided by the number of meals per day.
DailyShare(reqBody) ==
  LET asked == IF reqBody.NumberOfMeals # 0 THEN reqBody.NumberOfMeals
               ELSE IF reqBody.MealsPerDay = "2" THEN 2 ELSE 3
  IN  [Calories |-> Frac(reqBody.DailyCaloriesGoal, asked),
       Carbs    |-> Frac(reqBody.DailyCarbsGoal, asked),
       Proteins |-> Frac(reqBody.DailyProtiensGoal, asked),
       Fats     |-> Frac(reqBody.DailyFatsGoal, asked)]

\* C29: every meal of the plan GenerateMeals returns carries the daily goals
\* divided by the number of meals per day as its macro target, also when the
\* reply of the generator is not JSON and the default plan is returned.
C29_TargetsAreDailyShare ==
  (upc = "generated" /\ ~ret.err) =>
    \A dayKey \in DOMAIN ret.plan :
      \A i \in 1..Len(ret.plan[dayKey]) :
        ret.plan[dayKey][i].MacroTarget = DailyShare(arg.reqBody)


-----------------------------------------------------------------------------
(* generateProgramSSEHandler: the frames written to the response.  The     *)
(* loop of generateProgramSSEPostHandler is the same.                      *)

\* A meal of the result; its macros are finite or, after an overflow of the
\* scaling, +Inf.
StreamMeal(mealName, macrosKind) ==
  [MealName |-> mealName, Macros |-> [Calories |-> [kind |-> macrosKind]]]

\* json.Marshal of the meal response: encoding/json rejects NaN and +-Inf.
jsonMarshalFails(meal) == meal.Macros.Calories.kind # "num"

StreamDayMeals ==
  {<<>>} \cup {<<StreamMeal("Lunch", k)>> : k \in {"num", "inf"}}
         \cup {<<StreamMeal("Lunch", k), StreamMeal("Dinner", l)>> :
                 k \in {"num", "inf"}, l \in {"num", "inf"}}

\* result.Data: the days of the plan
StreamResults ==
  {[d \in {} |-> <<>>]}
    \cup [{"day1"} -> StreamDayMeals]
    \cup [{"day1", "day2"} -> StreamDayMeals]

MarkerFrame(kind) == [kind |-> kind, day |-> "", meal |-> 0]
DataFrame(dayKey, i) == [kind |-> "data", day |-> dayKey, meal |-> i]

\* GenerateMeals failed: one error frame, and the handler returns
StreamError ==
  /\ upc = "none"
  /\ arg.err
  /\ ret' = [servings |-> <<>>, frames |-> <<MarkerFrame("Error")>>,
             daysLeft |-> {}, dayKey |-> "", mealIdx |-> 0]
  /\ upc' = "streamed"
  /\ UNCHANGED arg
  /\ UnchangedRun

\* result := swapFoodItems(*response); the range over result.Data begins
StreamBegin ==
  /\ upc = "none"
  /\ ~arg.err
  /\ ret' = [servings |-> <<>>, frames |-> <<>>,
             daysLeft |-> DOMAIN arg.data, dayKey |-> "", mealIdx |-> 0]
  /\ upc' = "days"
  /\ UNCHANGED arg
  /\ UnchangedRun

\* the next day of the map, in any order: <DAY_START>
SendDayStart ==
  /\ upc = "days"
  /\ \E dayKey \in ret.daysLeft :
       ret' = [ret EXCEPT !.frames = Append(@, MarkerFrame("DAY_START")),
                          !.daysLeft = @ \ {dayKey},
                          !.dayKey = dayKey,
                          !.mealIdx = 1]
  /\ upc' = "meals"
  /\ UNCHANGED arg
  /\ UnchangedRun

\* <MEAL_START>
SendMealStart ==
  /\ upc = "meals"
  /\ ret.mealIdx <= Len(arg.data[ret.dayKey])
  /\ ret' = [ret EXCEPT !.frames = Append(@, MarkerFrame("MEAL_START"))]
  /\ upc' = "marshal"
  /\ UNCHANGED arg
  /\ UnchangedRun

\* json.Marshal returned an error: it is logged and the loop continues
MarshalErrorContinue ==
  /\ upc = "marshal"
  /\ jsonMarshalFails(arg.data[ret.dayKey][ret.mealIdx])
  /\ ret' = [ret EXCEPT !.mealIdx = @ + 1]
  /\ upc' = "meals"
  /\ UNCHANGED arg
  /\ UnchangedRun

\* the meal as JSON
SendMealData ==
  /\ upc = "marshal"
  /\ ~jsonMarshalFails(arg.data[ret.dayKey][ret.mealIdx])
  /\ ret' = [ret EXCEPT !.frames = Append(@, DataFrame(ret.dayKey, ret.mealIdx))]
  /\ upc' = "mealEnd"
  /\ UNCHANGED arg
  /\ UnchangedRun

\* <MEAL_END>, then the pause between meals
SendMealEnd ==
  /\ upc = "mealEnd"
  /\ ret' = [ret EXCEPT !.frames = Append(@, MarkerFrame("MEAL_END")),
                        !.mealIdx = @ + 1]
  /\ upc' = "meals"
  /\ UNCHANGED arg
  /\ UnchangedRun

\* <DAY_END>
SendDayEnd ==
  /\ upc = "meals"
  /\ ret.mealIdx > Len(arg.data[ret.dayKey])
  /\ ret' = [ret EXCEPT !.frames = Append(@, MarkerFrame("DAY_END"))]
  /\ upc' = "days"
  /\ UNCHANGED arg
  /\ UnchangedRun

\* <MEAL_PLAN_END>
SendPlanEnd ==
  /\ upc = "days"
  /\ ret.daysLeft = {}
  /\ ret' = [ret EXCEPT !.frames = Append(@, MarkerFrame("MEAL_PLAN_END"))]
  /\ upc' = "streamed"
  /\ UNCHANGED arg
  /\ UnchangedRun

InitStream ==
  /\ plan \in {PlanShared}
  /\ mainPc = "calls"
  /\ uniqueFoods = {}
  /\ allMeals = <<>>
  /\ mealPos = 1
  /\ gpc = [n \in FoodNames |-> "idle"]
  /\ food = [n \in FoodNames |-> NilFood]
  /\ semaphore = 0
  /\ mutex = FALSE
  /\ wg = 0
  /\ apiCalls = 0
  /\ foodResults = NoEntries
  /\ result = NoEntries
  /\ searchResult = NoEntries
  /\ calls = [n \in FoodNames |-> 0]
  /\ trace = NoEntries
  /\ cnt = [p \in ProgramPoints |-> 0]
  /\ pending = 0
  /\ arg \in [err : BOOLEAN, data : StreamResults]
  /\ ret = NoArg
  /\ upc = "none"

NextStream ==
  \/ StreamError
  \/ StreamBegin
  \/ SendDayStart
  \/ SendMealStart
  \/ MarshalErrorContinue
  \/ SendMealData
  \/ SendMealEnd
  \/ SendDayEnd
  \/ SendPlanEnd

SpecStream == InitStream /\ [][NextStream]_vars

\* The frames from position i on are well-bracketed, read in the given mode.
RECURSIVE Bracketed(_, _, _)
Bracketed(frames, i, mode) ==
  IF i > Len(frames) THEN mode = "end"
  ELSE LET kind == frames[i].kind
       IN  CASE mode = "top" ->
                  \/ kind = "DAY_START" /\ Bracketed(frames, i + 1, "day")
                  \/ kind = "MEAL_PLAN_END" /\ Bracketed(frames, i + 1, "end")
             [] mode = "day" ->
                  \/ kind = "MEAL_START" /\ Bracketed(frames, i + 1, "meal")
                  \/ kind = "DAY_END" /\ Bracketed(frames, i + 1, "top")
             [] mode = "meal" -> kind = "data" /\ Bracketed(frames, i + 1, "data")
             [] mode = "data" -> kind = "MEAL_END" /\ Bracketed(frames, i + 1, "day")
             [] OTHER -> FALSE

\* C30: after a successful generation the frames sent are day groups, each a
\* DAY_START, the day's meals as MEAL_START, data, MEAL_END, and a DAY_END,
\* followed by one MEAL_PLAN_END as the last frame.
C30_FramesWellBracketed ==
  (upc = "streamed" /\ ~arg.err) =>
    /\ Bracketed(ret.frames, 1, "top")
    /\ Cardinality({i \in 1..Len(ret.frames) : ret.frames[i].kind = "DAY_START"})
         = Cardinality(DOMAIN arg.data)
    /\ \A dayKey \in DOMAIN arg.data :
         LET OfDay(frame) == frame.kind = "data" /\ frame.day = dayKey
         IN  SelectSeq(ret.frames, OfDay) =
               [i \in 1..Len(arg.data[dayKey]) |-> DataFrame(dayKey, i)]

=============================================================================
